---- MODULE Spec2Model ----
(***************************************************************************)
(* A model of the slater agent controller: the Fact/Facts data model       *)
(* (slater/types.py), IterationState and the two StateStore variants       *)
(* (slater/state.py), the policies (slater/policies.py, slater/phases.py)  *)
(* and AgentController (slater/controller.py).                             *)
(*                                                                         *)
(* Representation.                                                         *)
(*  - A fully qualified key is a sequence of tokens; the token "." is the  *)
(*    dot character and every other token is a dot-free identifier, so     *)
(*    "a.b" is <<"a", ".", "b">>.  str.split(".") and the f"{p}.{k}" join  *)
(*    are computed on these sequences.                                     *)
(*  - A Python dict is a sequence of entries [k, v] with distinct keys, in *)
(*    insertion order (dicts iterate in insertion order).                  *)
(*  - A Facts tree is a dict whose values are items: a leaf Fact or a      *)
(*    nested Facts.                                                        *)
(***************************************************************************)
EXTENDS Integers, Sequences, FiniteSets, TLC

(***************************************************************************)
(* Bounds of the model.                                                    *)
(***************************************************************************)
\* largest max_iterations argument passed to run()
MaxIterationsArg == 3
\* largest max_same_phase argument passed to run()
MaxSamePhaseArg == 3
\* number of run() calls and controller constructions in one behaviour
MaxCalls == 3

(***************************************************************************)
(* Python dict, insertion ordered.                                         *)
(***************************************************************************)
DictKeys(d) == {d[i].k : i \in 1..Len(d)}

DictHas(d, key) == \E i \in 1..Len(d) : d[i].k = key

DictGet(d, key) == d[CHOOSE i \in 1..Len(d) : d[i].k = key].v

\* d[key] = val: an existing key keeps its position, a new key is appended
DictSet(d, key, val) ==
    IF DictHas(d, key)
    THEN [i \in 1..Len(d) |-> IF d[i].k = key THEN [k |-> key, v |-> val] ELSE d[i]]
    ELSE Append(d, [k |-> key, v |-> val])

\* {k: v for (k, v) in pairs}: later pairs overwrite earlier ones
RECURSIVE DictFromPairs(_, _)
DictFromPairs(acc, pairs) ==
    IF pairs = <<>> THEN acc
    ELSE DictFromPairs(DictSet(acc, Head(pairs).k, Head(pairs).v), Tail(pairs))

\* dict equality in Python ignores the order of insertion
DictEq(d1, d2) ==
    /\ DictKeys(d1) = DictKeys(d2)
    /\ \A key \in DictKeys(d1) : DictGet(d1, key) = DictGet(d2, key)

(***************************************************************************)
(* Fact (types.py): key, value, scope, and the class of the fact.          *)
(***************************************************************************)
Scopes == {"iteration", "session", "persistent"}

Fact(key, value, scope, type) ==
    [key |-> key, value |-> value, scope |-> scope, type |-> type]

\* filler of the fact field of a nested group
NoFact == [key |-> <<>>, value |-> "none", scope |-> "none", type |-> "none"]

\* Fact.serialize: the 3-field dict; the class of the fact is not written
Fact_serialize(f) == [key |-> f.key, value |-> f.value, scope |-> f.scope]

\* a deserialize that leaves the scope at the default of the dataclass
Fact_deserialize_default_scope(s) == Fact(s.key, s.value, "iteration", "Fact")

\* Fact.deserialize: always builds the base class Fact
Fact_deserialize(s) == Fact(s.key, s.value, s.scope, "Fact")

(***************************************************************************)
(* Facts (types.py).                                                       *)
(***************************************************************************)
Leaf(f) == [leaf |-> TRUE, fact |-> f, sub |-> <<>>]

Group(t) == [leaf |-> FALSE, fact |-> NoFact, sub |-> t]

\* f"{prefix}.{key}" if prefix else key
Join(prefix, key) == IF prefix = <<>> THEN key ELSE prefix \o <<".">> \o key

\* Facts.iter_facts: the (fully qualified key, Fact) pairs, in tree order
RECURSIVE iter_facts(_, _)
iter_facts(facts, prefix) ==
    IF facts = <<>> THEN <<>>
    ELSE LET e == Head(facts)
             fq == Join(prefix, e.k)
         IN (IF e.v.leaf THEN << [k |-> fq, v |-> e.v.fact] >>
                         ELSE iter_facts(e.v.sub, fq))
            \o iter_facts(Tail(facts), prefix)

\* Facts.flatten
flatten(facts) == DictFromPairs(<<>>, iter_facts(facts, <<>>))

\* Facts.serialize
serialize(facts) ==
    LET pairs == iter_facts(facts, <<>>)
    IN DictFromPairs(<<>>,
         [i \in 1..Len(pairs) |-> [k |-> pairs[i].k, v |-> Fact_serialize(pairs[i].v)]])

\* str.split("."): the dot-free runs of tokens between the dots
RECURSIVE Split(_, _)
Split(key, cur) ==
    IF key = <<>> THEN << cur >>
    ELSE IF Head(key) = "." THEN << cur >> \o Split(Tail(key), <<>>)
    ELSE Split(Tail(key), Append(cur, Head(key)))

\* the walk of unflatten for one key: [ok, t]; ok is FALSE when the walk
\* steps into a leaf Fact (Python raises TypeError there)
RECURSIVE TreeInsert(_, _, _)
TreeInsert(tree, parts, fact) ==
    IF Len(parts) = 1
    THEN [ok |-> TRUE, t |-> DictSet(tree, parts[1], Leaf(fact))]
    ELSE LET p == Head(parts)
             below == IF DictHas(tree, p) THEN DictGet(tree, p) ELSE Group(<<>>)
         IN IF below.leaf
            THEN [ok |-> FALSE, t |-> tree]
            ELSE LET r == TreeInsert(below.sub, Tail(parts), fact)
                 IN [ok |-> r.ok, t |-> DictSet(tree, p, Group(r.t))]

RECURSIVE UnflattenFrom(_, _)
UnflattenFrom(root, flat) ==
    IF flat = <<>> THEN [ok |-> TRUE, t |-> root]
    ELSE LET r == TreeInsert(root, Split(Head(flat).k, <<>>), Head(flat).v)
         IN IF r.ok THEN UnflattenFrom(r.t, Tail(flat)) ELSE [ok |-> FALSE, t |-> root]

\* an unflatten that puts every fact at the top level, under its dotted key
unflatten_top_level(flat) ==
    [ok |-> TRUE, t |-> [i \in 1..Len(flat) |-> [k |-> flat[i].k, v |-> Leaf(flat[i].v)]]]

\* Facts.unflatten: [ok, t]
unflatten(flat) == UnflattenFrom(<<>>, flat)

\* Facts.deserialize
deserialize(flat) ==
    unflatten([i \in 1..Len(flat) |-> [k |-> flat[i].k, v |-> Fact_deserialize(flat[i].v)]])

(***************************************************************************)
(* IterationState (state.py).  persistent and iteration are the dicts      *)
(* _persistent and _iteration, from fully qualified key to Fact.           *)
(***************************************************************************)
RECURSIVE SelectDurable(_)
SelectDurable(pairs) ==
    IF pairs = <<>> THEN <<>>
    ELSE (IF Head(pairs).v.scope # "iteration" THEN << Head(pairs) >> ELSE <<>>)
         \o SelectDurable(Tail(pairs))

\* a construction that keeps the iteration-scoped leaves as well
IterationState_unfiltered(base_facts) ==
    [persistent |-> DictFromPairs(<<>>, iter_facts(base_facts, <<>>)),
     iteration |-> <<>>]

\* IterationState.__init__
IterationState(base_facts) ==
    [persistent |-> DictFromPairs(<<>>, SelectDurable(iter_facts(base_facts, <<>>))),
     iteration |-> <<>>]

\* IterationState.begin_iteration
begin_iteration(st) == [st EXCEPT !.iteration = <<>>]

RECURSIVE ApplyPairs(_, _)
ApplyPairs(st, pairs) ==
    IF pairs = <<>> THEN st
    ELSE LET e == Head(pairs)
         IN ApplyPairs(IF e.v.scope = "iteration"
                       THEN [st EXCEPT !.iteration = DictSet(@, e.k, e.v)]
                       ELSE [st EXCEPT !.persistent = DictSet(@, e.k, e.v)],
                       Tail(pairs))

\* IterationState.apply_facts
apply_facts(st, facts) == ApplyPairs(st, iter_facts(facts, <<>>))

\* IterationState.__contains__
state_contains(st, key) == DictHas(st.iteration, key) \/ DictHas(st.persistent, key)

\* IterationState.__getitem__: [ok, value]; ok is FALSE for KeyError
state_getitem(st, key) ==
    IF DictHas(st.iteration, key) THEN [ok |-> TRUE, value |-> DictGet(st.iteration, key).value]
    ELSE IF DictHas(st.persistent, key)
         THEN [ok |-> TRUE, value |-> DictGet(st.persistent, key).value]
         ELSE [ok |-> FALSE, value |-> "none"]

\* a get that looks at the durable map first
state_get_durable_first(st, key, default) ==
    IF DictHas(st.persistent, key) THEN DictGet(st.persistent, key).value
    ELSE IF DictHas(st.iteration, key) THEN DictGet(st.iteration, key).value
         ELSE default

\* IterationState.get
state_get(st, key, default) ==
    IF DictHas(st.iteration, key) THEN DictGet(st.iteration, key).value
    ELSE IF DictHas(st.persistent, key) THEN DictGet(st.persistent, key).value
         ELSE default

\* a projection that takes the ephemeral facts along
persistent_facts_with_ephemeral(st) == unflatten(DictFromPairs(st.persistent, st.iteration))

\* IterationState.persistent_facts: [ok, t]
persistent_facts(st) == unflatten(st.persistent)

(***************************************************************************)
(* BootstrapConfig (config.py) and the seeds of bootstrap.  The values of  *)
(* the configuration are fixed strings.                                    *)
(***************************************************************************)
kGoal == <<"goal">>
kRepoRoot == <<"repo_root">>
kRepoIgnore == <<"repo_ignore">>

BootstrapConfig(has_goal, has_repo, has_ignore) ==
    [has_goal |-> has_goal, has_repo |-> has_repo, has_ignore |-> has_ignore]

\* the configurations a controller is constructed with
Configs ==
    { BootstrapConfig(FALSE, FALSE, FALSE),
      BootstrapConfig(TRUE, TRUE, TRUE) }

SeedValue(key) ==
    CASE key = kGoal -> "goal text"
      [] key = kRepoRoot -> "/repo"
      [] OTHER -> "ignore list"

SeedFact(key) == Leaf(Fact(key, SeedValue(key), "session", "KnowledgeFact"))

(***************************************************************************)
(* InMemoryStateStore (state.py), for one agent_id.                        *)
(*   present: agent_id is a key of _persistent                             *)
(*   facts:   _persistent[agent_id], a Facts tree                          *)
(*   history: _history[agent_id], a list of IterationFacts                 *)
(***************************************************************************)
MemStoreNew == [present |-> FALSE, facts |-> <<>>, history |-> <<>>]

\* a bootstrap that seeds repo_ignore whenever a repo section is present
mem_bootstrap_ignore_always(store, config) ==
    LET f1 == IF config.has_goal THEN DictSet(<<>>, kGoal, SeedFact(kGoal)) ELSE <<>>
        f2 == IF config.has_repo THEN DictSet(f1, kRepoRoot, SeedFact(kRepoRoot)) ELSE f1
        f3 == IF config.has_repo
              THEN DictSet(f2, kRepoIgnore, SeedFact(kRepoIgnore)) ELSE f2
    IN [present |-> TRUE, facts |-> f3, history |-> <<>>]

\* InMemoryStateStore.bootstrap
mem_bootstrap(store, config) ==
    LET f1 == IF config.has_goal THEN DictSet(<<>>, kGoal, SeedFact(kGoal)) ELSE <<>>
        f2 == IF config.has_repo THEN DictSet(f1, kRepoRoot, SeedFact(kRepoRoot)) ELSE f1
        f3 == IF config.has_repo /\ config.has_ignore
              THEN DictSet(f2, kRepoIgnore, SeedFact(kRepoIgnore)) ELSE f2
    IN [present |-> TRUE, facts |-> f3, history |-> <<>>]

\* a save that appends no record
mem_save_history_dropped(store, iteration_facts) == store

\* a save that appends the record twice
mem_save_history_twice(store, iteration_facts) ==
    [store EXCEPT !.history = Append(Append(@, iteration_facts), iteration_facts)]

\* InMemoryStateStore.save, first statement: the record is appended
mem_save_history(store, iteration_facts) ==
    [store EXCEPT !.history = Append(@, iteration_facts)]

\* a save that leaves the stored snapshot as it was
mem_save_persistent_kept(store, facts) == store

\* InMemoryStateStore.save, second statement: the snapshot is replaced
mem_save_persistent(store, facts) ==
    [store EXCEPT !.present = TRUE, !.facts = facts]

\* InMemoryStateStore.load: [ok, t]
mem_load(store) == [ok |-> TRUE, t |-> IF store.present THEN store.facts ELSE <<>>]

\* InMemoryStateStore.history
mem_history(store) == store.history

(***************************************************************************)
(* FileSystemStateStore (state.py), for one agent_id.                      *)
(*   file:     <agent_id>.json, [exists, content, whole]                   *)
(*   tmp:      <agent_id>.tmp,  [exists, content, whole]                   *)
(*   histfile: the lines of <agent_id>_history.jsonl                       *)
(* A file's content is the JSON object written: a dict of serialized       *)
(* facts in the order json.dump(sort_keys=True) writes it; whole is FALSE  *)
(* while the text of the object is only partly written.                    *)
(***************************************************************************)
\* the tokens of the keys of the model, in the order of Python's string
\* comparison; "." sorts below every identifier character
Tokens == << ".", "a", "b", "done", "fail", "first", "goal", "k", "r",
             "repo_ignore", "repo_root", "second", "u" >>

TokenRank(tok) == CHOOSE i \in 1..Len(Tokens) : Tokens[i] = tok

\* k1 < k2 as Python strings
RECURSIVE KeyLess(_, _)
KeyLess(k1, k2) ==
    IF k2 = <<>> THEN FALSE
    ELSE IF k1 = <<>> THEN TRUE
    ELSE IF Head(k1) = Head(k2) THEN KeyLess(Tail(k1), Tail(k2))
    ELSE TokenRank(Head(k1)) < TokenRank(Head(k2))

RECURSIVE InsertSorted(_, _)
InsertSorted(sorted, e) ==
    IF sorted = <<>> THEN << e >>
    ELSE IF KeyLess(e.k, Head(sorted).k) THEN << e >> \o sorted
    ELSE << Head(sorted) >> \o InsertSorted(Tail(sorted), e)

RECURSIVE SortByKey(_)
SortByKey(d) == IF d = <<>> THEN <<>> ELSE InsertSorted(SortByKey(Tail(d)), Head(d))

\* json.dump(obj, f, sort_keys=True): the object with its keys sorted
json_dump(flat) == SortByKey(flat)

\* json.loads(text): the dict, in the order of the file
json_loads(content) == DictFromPairs(<<>>, content)

NoFile == [exists |-> FALSE, content |-> <<>>, whole |-> FALSE]

FsStoreNew == [file |-> NoFile, tmp |-> NoFile, histfile |-> <<>>]

\* FileSystemStateStore.load: [ok, t]
fs_load(store) ==
    IF ~store.file.exists THEN [ok |-> TRUE, t |-> <<>>]
    ELSE IF ~store.file.whole THEN [ok |-> FALSE, t |-> <<>>]
    ELSE deserialize(json_loads(store.file.content))

\* the snapshot file itself is opened for writing
fs_open_in_place(store) ==
    [store EXCEPT !.file = [exists |-> TRUE, content |-> <<>>, whole |-> FALSE]]

\* tmp.open("w"): the temporary file is created or truncated
fs_open_tmp(store) ==
    [store EXCEPT !.tmp = [exists |-> TRUE, content |-> <<>>, whole |-> FALSE]]

\* json.dump(facts.serialize(), tmp.open("w"), sort_keys=True)
fs_write_tmp(store, facts) ==
    [store EXCEPT !.tmp = [exists |-> TRUE, content |-> json_dump(serialize(facts)),
                           whole |-> TRUE]]

\* tmp.replace(path)
fs_replace(store) == [store EXCEPT !.file = store.tmp, !.tmp = NoFile]

\* the line FileSystemStateStore.save appends to the history file
RECURSIVE SerializeByAction(_)
SerializeByAction(by_action) ==
    IF by_action = <<>> THEN <<>>
    ELSE << [k |-> Head(by_action).k, v |-> serialize(Head(by_action).v)] >>
         \o SerializeByAction(Tail(by_action))

fs_history_line(iteration_facts) ==
    [iteration |-> iteration_facts.iteration,
     phase |-> [kind |-> "str", name |-> iteration_facts.phase.name],
     by_action |-> SerializeByAction(iteration_facts.by_action)]

\* the history file is opened with "w" and holds the new line only
fs_append_history_truncating(store, iteration_facts) ==
    [store EXCEPT !.histfile = << fs_history_line(iteration_facts) >>]

\* history_path.open("a").write(line)
fs_append_history(store, iteration_facts) ==
    [store EXCEPT !.histfile = Append(@, fs_history_line(iteration_facts))]

\* FileSystemStateStore.history
fs_history(store) == store.histfile

\* FileSystemStateStore.bootstrap: seed = Facts(**seed_facts)
fs_seed(config) ==
    LET f1 == IF config.has_goal THEN DictSet(<<>>, kGoal, SeedFact(kGoal)) ELSE <<>>
        f2 == IF config.has_repo THEN DictSet(f1, kRepoRoot, SeedFact(kRepoRoot)) ELSE f1
    IN IF config.has_repo /\ config.has_ignore
       THEN DictSet(f2, kRepoIgnore, SeedFact(kRepoIgnore)) ELSE f2

\* FileSystemStateStore.bootstrap
fs_bootstrap(store, config) ==
    IF store.file.exists THEN store
    ELSE fs_replace(fs_write_tmp(store, fs_seed(config)))

(***************************************************************************)
(* PhaseRule (phases.py), ControlPolicy and TransitionPolicy (policies.py) *)
(***************************************************************************)
PhaseRule(enter, when_all, when_any, when_none) ==
    [enter |-> enter, when_all |-> when_all, when_any |-> when_any, when_none |-> when_none]

\* a match that asks for a key of when_any even if when_any is empty
matches_any_always(rule, fact_keys) ==
    /\ rule.when_all \subseteq fact_keys
    /\ rule.when_any \cap fact_keys # {}
    /\ rule.when_none \cap fact_keys = {}

\* PhaseRule.matches
matches(rule, fact_keys) ==
    /\ rule.when_all \subseteq fact_keys
    /\ ~(rule.when_any # {} /\ rule.when_any \cap fact_keys = {})
    /\ rule.when_none \cap fact_keys = {}

ControlPolicy(required_state_keys, user_required_keys, completion_keys, failure_keys) ==
    [required_state_keys |-> required_state_keys,
     user_required_keys |-> user_required_keys,
     completion_keys |-> completion_keys,
     failure_keys |-> failure_keys]

TransitionPolicy(rules, default) == [rules |-> rules, default |-> default]

\* [r for r in self.rules if r.matches(fact_keys)]
RECURSIVE MatchingRules(_, _)
MatchingRules(rules, fact_keys) ==
    IF rules = <<>> THEN <<>>
    ELSE (IF matches(Head(rules), fact_keys) THEN << Head(rules) >> ELSE <<>>)
         \o MatchingRules(Tail(rules), fact_keys)

\* a derivation that takes the first matching rule
derive_phase_first_match(policy, fact_keys) ==
    LET m == MatchingRules(policy.rules, fact_keys)
    IN IF m = <<>> THEN [kind |-> "none", phase |-> "-"]
       ELSE [kind |-> "phase", phase |-> m[1].enter]

\* TransitionPolicy.derive_phase: [kind, phase] with kind
\*   "none"  - None is returned
\*   "phase" - the phase returned
\*   "error" - ValueError (non-deterministic phase derivation)
derive_phase(policy, fact_keys) ==
    LET m == MatchingRules(policy.rules, fact_keys)
    IN IF m = <<>> THEN [kind |-> "none", phase |-> "-"]
       ELSE IF Len(m) > 1 THEN [kind |-> "error", phase |-> "-"]
       ELSE [kind |-> "phase", phase |-> m[1].enter]

(***************************************************************************)
(* Actions and procedures (actions.py, procedures.py).  An action's        *)
(* instruction() is a plug-in: an "emit" action returns one of the results *)
(* in outs, whatever the state; a "read" action is the ReadAndEmit action  *)
(* of the controller tests.                                                *)
(***************************************************************************)
\* instruction() returned a Facts
Emit(facts) == [raised |-> FALSE, is_facts |-> TRUE, facts |-> facts]

\* instruction() returned a value that is not a Facts
NonFacts == [raised |-> FALSE, is_facts |-> FALSE, facts |-> <<>>]

\* instruction() raised
Raise == [raised |-> TRUE, is_facts |-> FALSE, facts |-> <<>>]

EmitAction(name, outs) ==
    [name |-> name, kind |-> "emit", outs |-> outs, read_key |-> <<>>, emit_key |-> <<>>]

ReadAndEmit(name, read_key, emit_key) ==
    [name |-> name, kind |-> "read", outs |-> {}, read_key |-> read_key, emit_key |-> emit_key]

\* Facts(key=type(key, value, scope))
One(key, value, scope, type) == << [k |-> key, v |-> Leaf(Fact(key, value, scope, type))] >>

\* Facts(outer=Facts(key=type(key, value, scope)))
Nested(outer, key, value, scope, type) ==
    << [k |-> outer, v |-> Group(One(key, value, scope, type))] >>

\* the results instruction() of a materialized action can give in state st
instruction(action, st) ==
    IF action.kind = "emit" THEN action.outs
    ELSE LET got == state_getitem(st, action.read_key)
         IN IF got.ok
            THEN { Emit(One(action.emit_key, "read_" \o got.value, "session", "KnowledgeFact")) }
            ELSE { Raise }

(***************************************************************************)
(* The agent specifications the controller is run with (AgentSpec,         *)
(* spec.py).  Their actions declare no emits, as the actions of the        *)
(* controller tests.                                                       *)
(***************************************************************************)
kDone == <<"done">>
kFail == <<"fail">>
kU == <<"u">>
kR == <<"r">>
kK == <<"k">>
kA == <<"a">>
kB == <<"b">>
kAB == <<"a", ".", "b">>
kFirst == <<"first">>
kSecond == <<"second">>

AgentSpec(phases, control_policy, transition_policy, procedures) ==
    [phases |-> phases, control_policy |-> control_policy,
     transition_policy |-> transition_policy, procedures |-> procedures]

\* the four control gates, an empty procedure, a phase that repeats
AgentGates ==
    AgentSpec({"P0", "P1"},
        ControlPolicy({kR}, {kU}, {kDone}, {kFail}),
        TransitionPolicy(<< PhaseRule("P1", {kU, kR}, {}, {kGoal}) >>, "P0"),
        [ph \in {"P0", "P1"} |->
            IF ph = "P0"
            THEN << EmitAction("A1", { Emit(One(kU, "v1", "session", "Fact")),
                                       Emit(One(kDone, "v1", "session", "ProgressFact")),
                                       Emit(<<>>) }),
                    EmitAction("A2", { Emit(One(kR, "v1", "persistent", "Fact")),
                                       Emit(One(kFail, "v1", "session", "ProgressFact")),
                                       NonFacts }) >>
            ELSE <<>>])

\* scopes, values, nested keys, a read, a raising action, overlapping rules,
\* a completion key emitted with scope iteration
AgentScopes ==
    AgentSpec({"P0", "P1"},
        ControlPolicy({}, {}, {kDone}, {}),
        TransitionPolicy(<< PhaseRule("P1", {kSecond}, {}, {kK}),
                            PhaseRule("P0", {kK}, {}, {}),
                            PhaseRule("P1", {kK}, {kA, kAB}, {}) >>, "P0"),
        [ph \in {"P0", "P1"} |->
            IF ph = "P0"
            THEN << EmitAction("X1", { Emit(One(kFirst, "v1", "iteration", "Fact")),
                                       Emit(One(kFirst, "v1", "session", "Fact")) }),
                    EmitAction("X2", { Emit(One(kFirst, "v2", "session", "KnowledgeFact")),
                                       Emit(Nested(kA, kB, "v2", "session", "Fact")),
                                       Raise }),
                    ReadAndEmit("X3", kFirst, kSecond),
                    EmitAction("X4", { Emit(Nested(kA, kB, "v1", "session", "Fact")),
                                       Emit(One(kA, "v1", "session", "Fact")),
                                       NonFacts }) >>
            ELSE << EmitAction("Y1", { Emit(Nested(kA, kB, "v2", "persistent", "Fact")),
                                       Emit(One(kA, "v2", "session", "Fact")),
                                       Emit(One(kK, "v1", "persistent", "Fact")),
                                       Emit(One(kDone, "v1", "session", "Fact")),
                                       Emit(One(kDone, "v1", "iteration", "Fact")) }) >>])

\* one phase, two rules that both match once the goal is in the store, an
\* action that may return no Facts, a completion key that stays in the store
AgentOverlap ==
    AgentSpec({"P0"},
        ControlPolicy({}, {}, {kK}, {}),
        TransitionPolicy(<< PhaseRule("P0", {kGoal}, {}, {}),
                            PhaseRule("P0", {}, {kGoal, kK}, {}) >>, "P0"),
        [ph \in {"P0"} |->
            << EmitAction("Z1", { Emit(One(kK, "v1", "session", "Fact")),
                                  NonFacts }) >>])

AgentSpecs == { AgentGates, AgentScopes, AgentOverlap }

(***************************************************************************)
(* State.                                                                  *)
(***************************************************************************)
VARIABLES
    spec,             \* AgentController.spec
    bootstrap_config, \* AgentController.bootstrap_config
    store_kind,       \* "mem": InMemoryStateStore, "fs": FileSystemStateStore
    mem_store,        \* the InMemoryStateStore
    fs_store,         \* the FileSystemStateStore
    calls,            \* the controllers constructed (init) and the run() calls
                      \* (run) so far
    pc,               \* where the controller is: "none" (not constructed), "idle",
                      \* "loop", "exec", "finalize", "save_1", "save_2", "save_3",
                      \* "gates", "returned", "raised"
    outcome,          \* how the last run() ended
    iteration,        \* AgentController.iteration
    last_phase,       \* AgentController.last_phase
    max_iterations,   \* argument of run()
    max_same_phase,   \* argument of run()
    phase_history,    \* local of run()
    persistent,       \* local of run(): the Facts loaded at the start of the iteration
    iteration_state,  \* local of run(): the IterationState
    action_index,     \* the next action of the procedure
    results,          \* local of run(): the (action, result) pairs
    pending,          \* arguments of the save in progress
    durable_keys,     \* local of run()
    emitted           \* history variable: the last value each key was emitted with
                      \* in the current iteration

\* the input and the result of a function applied on its own
VARIABLES
    fn_in,            \* the arguments
    fn_out,           \* the result
    fn_done           \* the function has been applied

\* a store operated on its own, operation by operation
VARIABLES
    op_pc,            \* where the operation in progress is: "idle", "crashed",
                      \* "mem_save_2", "fs_save_dump", "fs_save_replace",
                      \* "fs_save_append", "fs_boot_dump", "fs_boot_replace"
    op_log,           \* the operations started so far, in order
    op_before         \* load(agent_id) and history(agent_id) when the last
                      \* operation started

fn_vars == << fn_in, fn_out, fn_done, op_pc, op_log, op_before >>

vars == << fn_vars, spec, bootstrap_config, store_kind, mem_store, fs_store, calls, pc, outcome, iteration,
           last_phase, max_iterations, max_same_phase, phase_history, persistent,
           iteration_state, action_index, results, pending, durable_keys, emitted >>

NoState == [persistent |-> <<>>, iteration |-> <<>>]

NoPending == [iteration_facts |-> [iteration |-> 0, phase |-> [kind |-> "none", name |-> "-"],
                                   by_action |-> <<>>],
              persistent_facts |-> <<>>]

\* store.load(agent_id), store.history(agent_id)
StoreLoad == IF store_kind = "mem" THEN mem_load(mem_store) ELSE fs_load(fs_store)

StoreHistory == IF store_kind = "mem" THEN mem_history(mem_store) ELSE fs_history(fs_store)

\* no store operation has been started
NoOps ==
    /\ op_pc = "idle"
    /\ op_log = <<>>
    /\ op_before = [load |-> [ok |-> TRUE, t |-> <<>>], history |-> <<>>]

\* before any controller is constructed, on a fresh store
Fresh ==
    /\ mem_store = MemStoreNew
    /\ fs_store = FsStoreNew
    /\ calls = [init |-> 0, run |-> 0]
    /\ pc = "none"
    /\ outcome = "-"
    /\ iteration = 0
    /\ last_phase = "-"
    /\ max_iterations = 0
    /\ max_same_phase = 0
    /\ phase_history = <<>>
    /\ persistent = <<>>
    /\ iteration_state = NoState
    /\ action_index = 0
    /\ results = <<>>
    /\ pending = NoPending
    /\ durable_keys = {}
    /\ emitted = <<>>

Init ==
    /\ spec \in AgentSpecs
    /\ bootstrap_config \in Configs
    /\ store_kind \in {"mem", "fs"}
    /\ Fresh
    /\ fn_in = <<>>
    /\ fn_out = <<>>
    /\ fn_done = FALSE
    /\ NoOps

(***************************************************************************)
(* AgentController (controller.py).                                        *)
(***************************************************************************)
\* a cycle check over the whole phase history
_detect_cycle_whole_history(history, n) ==
    IF Len(history) < n THEN FALSE
    ELSE Cardinality({history[i] : i \in 1..Len(history)}) = 1

\* a cycle check over one entry less than max_same_phase
_detect_cycle_one_early(history, n) ==
    IF Len(history) < n - 1 THEN FALSE
    ELSE LET recent == IF n <= 1 THEN history
                       ELSE SubSeq(history, Len(history) - n + 2, Len(history))
         IN Cardinality({recent[i] : i \in 1..Len(recent)}) = 1

\* AgentController._detect_cycle
_detect_cycle(history, n) ==
    IF Len(history) < n THEN FALSE
    ELSE LET recent == IF n = 0 THEN history
                       ELSE SubSeq(history, Len(history) - n + 1, Len(history))
         IN Cardinality({recent[i] : i \in 1..Len(recent)}) = 1

\* AgentController._finalize_iteration: the by_action dict
RECURSIVE ByAction(_, _)
ByAction(acc, res) ==
    IF res = <<>> THEN acc
    ELSE LET r == Head(res)
         IN ByAction(IF ~r.result.raised /\ r.result.is_facts
                     THEN DictSet(acc, r.action, r.result.facts) ELSE acc,
                     Tail(res))

IterationFacts(iter, phase, by_action) ==
    [iteration |-> iter, phase |-> [kind |-> "enum", name |-> phase], by_action |-> by_action]

\* set(durable_facts.serialize().keys())
DurableKeys(facts) == DictKeys(serialize(facts))

\* gates without the failure gate
Decide_without_failure(agent, keys) ==
    LET cp == agent.control_policy
        next_phase == derive_phase(agent.transition_policy, keys)
    IN IF cp.completion_keys \cap keys # {} THEN [kind |-> "completion", phase |-> "-"]
       ELSE IF cp.user_required_keys \ keys # {} THEN [kind |-> "pause_user", phase |-> "-"]
       ELSE IF cp.required_state_keys \ keys # {} THEN [kind |-> "pause_state", phase |-> "-"]
       ELSE IF next_phase.kind = "none" THEN [kind |-> "no_transition", phase |-> "-"]
       ELSE IF next_phase.kind = "error" THEN [kind |-> "nondeterministic", phase |-> "-"]
       ELSE [kind |-> "transition", phase |-> next_phase.phase]

\* gates after which a missing rule is an error
Decide_no_rule_raises(agent, keys) ==
    LET cp == agent.control_policy
        next_phase == derive_phase(agent.transition_policy, keys)
    IN IF cp.completion_keys \cap keys # {} THEN [kind |-> "completion", phase |-> "-"]
       ELSE IF cp.failure_keys \cap keys # {} THEN [kind |-> "failure", phase |-> "-"]
       ELSE IF cp.user_required_keys \ keys # {} THEN [kind |-> "pause_user", phase |-> "-"]
       ELSE IF cp.required_state_keys \ keys # {} THEN [kind |-> "pause_state", phase |-> "-"]
       ELSE IF next_phase.kind # "phase" THEN [kind |-> "nondeterministic", phase |-> "-"]
       ELSE [kind |-> "transition", phase |-> next_phase.phase]

\* gates after which two matching rules end run() as no rule does
Decide_overlap_returns(agent, keys) ==
    LET cp == agent.control_policy
        next_phase == derive_phase(agent.transition_policy, keys)
    IN IF cp.completion_keys \cap keys # {} THEN [kind |-> "completion", phase |-> "-"]
       ELSE IF cp.failure_keys \cap keys # {} THEN [kind |-> "failure", phase |-> "-"]
       ELSE IF cp.user_required_keys \ keys # {} THEN [kind |-> "pause_user", phase |-> "-"]
       ELSE IF cp.required_state_keys \ keys # {} THEN [kind |-> "pause_state", phase |-> "-"]
       ELSE IF next_phase.kind \in {"none", "error"}
       THEN [kind |-> "no_transition", phase |-> "-"]
       ELSE [kind |-> "transition", phase |-> next_phase.phase]

\* gates after which the phase is set to what derive_phase gave, None
\* included
Decide_none_is_entered(agent, keys) ==
    LET cp == agent.control_policy
        next_phase == derive_phase(agent.transition_policy, keys)
    IN IF cp.completion_keys \cap keys # {} THEN [kind |-> "completion", phase |-> "-"]
       ELSE IF cp.failure_keys \cap keys # {} THEN [kind |-> "failure", phase |-> "-"]
       ELSE IF cp.user_required_keys \ keys # {} THEN [kind |-> "pause_user", phase |-> "-"]
       ELSE IF cp.required_state_keys \ keys # {} THEN [kind |-> "pause_state", phase |-> "-"]
       ELSE IF next_phase.kind = "none" THEN [kind |-> "transition", phase |-> "None"]
       ELSE IF next_phase.kind = "error" THEN [kind |-> "nondeterministic", phase |-> "-"]
       ELSE [kind |-> "transition", phase |-> next_phase.phase]

\* gates that look at failure before completion
Decide_failure_first(agent, keys) ==
    LET cp == agent.control_policy
        next_phase == derive_phase(agent.transition_policy, keys)
    IN IF cp.failure_keys \cap keys # {} THEN [kind |-> "failure", phase |-> "-"]
       ELSE IF cp.completion_keys \cap keys # {} THEN [kind |-> "completion", phase |-> "-"]
       ELSE IF cp.user_required_keys \ keys # {} THEN [kind |-> "pause_user", phase |-> "-"]
       ELSE IF cp.required_state_keys \ keys # {} THEN [kind |-> "pause_state", phase |-> "-"]
       ELSE IF next_phase.kind = "none" THEN [kind |-> "no_transition", phase |-> "-"]
       ELSE IF next_phase.kind = "error" THEN [kind |-> "nondeterministic", phase |-> "-"]
       ELSE [kind |-> "transition", phase |-> next_phase.phase]

\* the control gates and the transition of run(), on the durable keys:
\* [kind, phase], kind one of "completion", "failure", "pause_user",
\* "pause_state", "no_transition", "nondeterministic", "transition"
Decide(agent, keys) ==
    LET cp == agent.control_policy
        next_phase == derive_phase(agent.transition_policy, keys)
    IN IF cp.completion_keys \cap keys # {} THEN [kind |-> "completion", phase |-> "-"]
       ELSE IF cp.failure_keys \cap keys # {} THEN [kind |-> "failure", phase |-> "-"]
       ELSE IF cp.user_required_keys \ keys # {} THEN [kind |-> "pause_user", phase |-> "-"]
       ELSE IF cp.required_state_keys \ keys # {} THEN [kind |-> "pause_state", phase |-> "-"]
       ELSE IF next_phase.kind = "none" THEN [kind |-> "no_transition", phase |-> "-"]
       ELSE IF next_phase.kind = "error" THEN [kind |-> "nondeterministic", phase |-> "-"]
       ELSE [kind |-> "transition", phase |-> next_phase.phase]

\* the record of the last value each key was emitted with
RECURSIVE NoteEmitted(_, _)
NoteEmitted(acc, pairs) ==
    IF pairs = <<>> THEN acc
    ELSE NoteEmitted(DictSet(acc, Head(pairs).k, Head(pairs).v.value), Tail(pairs))

\* run() is over (it returned or raised); the locals stay as they were
Leave(how, what) ==
    /\ pc' = how
    /\ outcome' = what
    /\ UNCHANGED << persistent, iteration_state, action_index, results, pending, emitted >>

\* locals of run() among which the phase history is kept from the call
\* before
FreshLocals_history_kept ==
    /\ phase_history' = phase_history
    /\ persistent' = <<>>
    /\ iteration_state' = NoState
    /\ action_index' = 0
    /\ results' = <<>>
    /\ pending' = NoPending
    /\ durable_keys' = {}
    /\ emitted' = <<>>

\* the locals of run() before its first iteration
FreshLocals ==
    /\ phase_history' = <<>>
    /\ persistent' = <<>>
    /\ iteration_state' = NoState
    /\ action_index' = 0
    /\ results' = <<>>
    /\ pending' = NoPending
    /\ durable_keys' = {}
    /\ emitted' = <<>>

\* procedure.execute(should_raise=False)
should_raise_off == FALSE

\* procedure.execute(should_raise=True)
should_raise == TRUE

\* a loop that lets two more iterations in
LoopCondition_two_more(iter, m) == iter < m + 2

\* a loop that runs while self.iteration <= max_iterations
LoopCondition_inclusive(iter, m) == iter <= m

\* while self.iteration < max_iterations
LoopCondition(iter, m) == iter < m

\* AgentController.__init__
Construct ==
    /\ pc \in {"none", "idle", "returned", "raised"}
    /\ calls.init + calls.run < MaxCalls
    /\ calls' = [calls EXCEPT !.init = @ + 1]
    /\ IF store_kind = "mem"
       THEN mem_store' = mem_bootstrap(mem_store, bootstrap_config) /\ UNCHANGED fs_store
       ELSE fs_store' = fs_bootstrap(fs_store, bootstrap_config) /\ UNCHANGED mem_store
    /\ iteration' = 0
    /\ last_phase' = spec.transition_policy.default
    /\ pc' = "idle"
    /\ outcome' = "-"
    /\ FreshLocals
    /\ UNCHANGED << fn_vars, spec, bootstrap_config, store_kind, max_iterations, max_same_phase >>

\* run(max_iterations=m, max_same_phase=n) is called
Run(m, n) ==
    /\ pc \in {"idle", "returned", "raised"}
    /\ calls.init + calls.run < MaxCalls
    /\ calls' = [calls EXCEPT !.run = @ + 1]
    /\ max_iterations' = m
    /\ max_same_phase' = n
    /\ pc' = "loop"
    /\ outcome' = "-"
    /\ FreshLocals
    /\ UNCHANGED << fn_vars, spec, bootstrap_config, store_kind, mem_store, fs_store, iteration, last_phase >>

\* the head of the while loop up to the materialized procedure
BeginIteration ==
    /\ pc = "loop"
    /\ UNCHANGED << fn_vars, spec, bootstrap_config, store_kind, mem_store, fs_store, calls, last_phase,
                    max_iterations, max_same_phase, durable_keys >>
    /\ IF ~LoopCondition(iteration, max_iterations)
       THEN /\ Leave("raised", "max_iterations")
            /\ UNCHANGED << iteration, phase_history >>
       ELSE /\ iteration' = iteration + 1
            /\ phase_history' = Append(phase_history, last_phase)
            /\ IF _detect_cycle(phase_history', max_same_phase)
               THEN Leave("raised", "cycle")
               ELSE LET loaded == StoreLoad
                    IN IF ~loaded.ok
                       THEN Leave("raised", "type_error")
                       ELSE IF last_phase \notin DOMAIN spec.procedures
                       THEN Leave("raised", "missing_procedure")
                       ELSE /\ persistent' = loaded.t
                            /\ iteration_state' = begin_iteration(IterationState(loaded.t))
                            /\ action_index' = 1
                            /\ results' = <<>>
                            /\ emitted' = <<>>
                            /\ pc' = "exec"
                            /\ UNCHANGED << outcome, pending >>

\* one turn of the for loop over procedure.execute(should_raise=True):
\* the next action is performed, and its Facts are applied
Perform ==
    /\ pc = "exec"
    /\ action_index <= Len(spec.procedures[last_phase])
    /\ UNCHANGED << fn_vars, spec, bootstrap_config, store_kind, mem_store, fs_store, calls, iteration, last_phase,
                    max_iterations, max_same_phase, phase_history, durable_keys >>
    /\ LET action == spec.procedures[last_phase][action_index]
       IN \E result \in instruction(action, iteration_state) :
            IF result.raised /\ should_raise
            THEN Leave("raised", "action_error")
            ELSE /\ results' = Append(results, [action |-> action.name, result |-> result])
                 /\ action_index' = action_index + 1
                 /\ IF ~result.raised /\ result.is_facts
                    THEN /\ iteration_state' = apply_facts(iteration_state, result.facts)
                         /\ emitted' = NoteEmitted(emitted, iter_facts(result.facts, <<>>))
                    ELSE UNCHANGED << iteration_state, emitted >>
                 /\ UNCHANGED << pc, outcome, persistent, pending >>

\* _finalize_iteration up to the call of state_store.save
Finalize ==
    /\ pc = "exec"
    /\ action_index > Len(spec.procedures[last_phase])
    /\ UNCHANGED << fn_vars, spec, bootstrap_config, store_kind, mem_store, fs_store, calls, iteration, last_phase,
                    max_iterations, max_same_phase, phase_history, durable_keys >>
    /\ LET by_action == ByAction(<<>>, results)
           facts == persistent_facts(iteration_state)
       IN IF by_action = <<>>
          THEN /\ pc' = "gates"
               /\ UNCHANGED << outcome, persistent, iteration_state, action_index,
                               results, pending, emitted >>
          ELSE IF ~facts.ok
          THEN Leave("raised", "type_error")
          ELSE /\ pending' = [iteration_facts |-> IterationFacts(iteration, last_phase, by_action),
                              persistent_facts |-> facts.t]
               /\ pc' = "save_1"
               /\ UNCHANGED << outcome, persistent, iteration_state, action_index,
                               results, emitted >>

\* state_store.save, statement by statement
Save ==
    /\ pc \in {"save_1", "save_2", "save_3"}
    /\ UNCHANGED << fn_vars, spec, bootstrap_config, store_kind, calls, outcome, iteration, last_phase, max_iterations,
                    max_same_phase, phase_history, persistent, iteration_state,
                    action_index, results, durable_keys, emitted >>
    /\ IF store_kind = "mem"
       THEN /\ UNCHANGED fs_store
            /\ IF pc = "save_1"
               THEN /\ mem_store' = mem_save_history(mem_store, pending.iteration_facts)
                    /\ pc' = "save_2"
                    /\ UNCHANGED pending
               ELSE /\ mem_store' = mem_save_persistent(mem_store, pending.persistent_facts)
                    /\ pc' = "gates"
                    /\ pending' = NoPending
       ELSE /\ UNCHANGED mem_store
            /\ IF pc = "save_1"
               THEN /\ fs_store' = fs_write_tmp(fs_store, pending.persistent_facts)
                    /\ pc' = "save_2"
                    /\ UNCHANGED pending
               ELSE IF pc = "save_2"
               THEN /\ fs_store' = fs_replace(fs_store)
                    /\ pc' = "save_3"
                    /\ UNCHANGED pending
               ELSE /\ fs_store' = fs_append_history(fs_store, pending.iteration_facts)
                    /\ pc' = "gates"
                    /\ pending' = NoPending

\* the end of the iteration: the control gates and the transition
Gates ==
    /\ pc = "gates"
    /\ UNCHANGED << fn_vars, spec, bootstrap_config, store_kind, mem_store, fs_store, calls, iteration,
                    max_iterations, max_same_phase, phase_history >>
    /\ LET facts == persistent_facts(iteration_state)
       IN IF ~facts.ok
          THEN /\ Leave("raised", "type_error")
               /\ UNCHANGED << last_phase, durable_keys >>
          ELSE LET keys == DurableKeys(facts.t)
                   d == Decide(spec, keys)
               IN /\ durable_keys' = keys
                  /\ IF d.kind = "transition"
                     THEN /\ last_phase' = d.phase
                          /\ pc' = "loop"
                          /\ UNCHANGED << outcome, persistent, iteration_state, action_index,
                                          results, pending, emitted >>
                     ELSE /\ Leave(IF d.kind = "nondeterministic" THEN "raised" ELSE "returned",
                                   d.kind)
                          /\ UNCHANGED last_phase

Next ==
    \/ Construct
    \/ \E m \in {MaxIterationsArg - 1, MaxIterationsArg},
          n \in {MaxSamePhaseArg - 1, MaxSamePhaseArg} : Run(m, n)
    \/ BeginIteration
    \/ Perform
    \/ Finalize
    \/ Save
    \/ Gates

Spec == Init /\ [][Next]_vars

(***************************************************************************)
(* TransitionPolicy.derive_phase applied on its own, to every list of at   *)
(* most MaxRules rules of RuleUniverse and every key set over DeriveKeys.  *)
(***************************************************************************)
MaxRules == 3

DeriveKeys == {<<"x">>, <<"y">>}

RuleUniverse ==
    { PhaseRule(enter, when_all, when_any, when_none) :
        enter \in {"P0", "P1"},
        when_all \in {{}, {<<"x">>}},
        when_any \in {{}, {<<"x">>, <<"y">>}},
        when_none \in {{}, {<<"y">>}} }

RuleLists == UNION { [1..n -> RuleUniverse] : n \in 0..MaxRules }

\* the list with the rules at i and i+1 exchanged
SwapRules(rules, i) ==
    [j \in 1..Len(rules) |-> IF j = i THEN rules[i + 1]
                             ELSE IF j = i + 1 THEN rules[i] ELSE rules[j]]

\* the controller is not involved
Frozen ==
    /\ spec = AgentGates
    /\ bootstrap_config = BootstrapConfig(FALSE, FALSE, FALSE)
    /\ store_kind = "mem"
    /\ Fresh

InitDerive ==
    /\ Frozen
    /\ NoOps
    /\ fn_in \in [rules : RuleLists, keys : SUBSET DeriveKeys]
    /\ fn_out = <<>>
    /\ fn_done = FALSE

ApplyDerive ==
    /\ ~fn_done
    /\ fn_out' = [result |-> derive_phase(TransitionPolicy(fn_in.rules, "P0"), fn_in.keys),
                  matched |-> [i \in 1..Len(fn_in.rules) |-> matches(fn_in.rules[i], fn_in.keys)],
                  swapped |-> { derive_phase(TransitionPolicy(SwapRules(fn_in.rules, i), "P0"),
                                             fn_in.keys) : i \in 1..(Len(fn_in.rules) - 1) }]
    /\ fn_done' = TRUE
    /\ UNCHANGED << fn_in, op_pc, op_log, op_before, spec, bootstrap_config, store_kind,
                    mem_store, fs_store, calls, pc,
                    outcome, iteration, last_phase, max_iterations, max_same_phase,
                    phase_history, persistent, iteration_state, action_index, results,
                    pending, durable_keys, emitted >>

SpecDerive == InitDerive /\ [][ApplyDerive]_vars

(***************************************************************************)
(* A StateStore operated on its own: bootstrap and save are called with    *)
(* any configuration and any arguments, the filesystem variant statement   *)
(* by statement, and the process may die in the middle of an operation of  *)
(* the filesystem variant (the files stay as they are).                    *)
(***************************************************************************)
\* number of store operations started in one behaviour
MaxOps == 3

\* goal, repo and a non-empty repo.ignore, each present or absent
AllConfigs ==
    { BootstrapConfig(g, r, i) : g \in BOOLEAN, r \in BOOLEAN, i \in BOOLEAN } \
    { BootstrapConfig(g, FALSE, TRUE) : g \in BOOLEAN }

\* the persistent_facts arguments of save
SaveFacts ==
    { One(kK, "v1", "persistent", "Fact"),
      Nested(kA, kB, "v2", "session", "KnowledgeFact") \o One(kK, "v2", "session", "Fact") }

\* the iteration_facts arguments of the n-th operation
SaveRecords(n) ==
    { IterationFacts(n, ph, << [k |-> "A1", v |-> f] >>) : ph \in {"P0", "P1"}, f \in SaveFacts }

InitStores ==
    /\ spec = AgentGates
    /\ bootstrap_config \in AllConfigs
    /\ store_kind \in {"mem", "fs"}
    /\ Fresh
    /\ fn_in = <<>>
    /\ fn_out = <<>>
    /\ fn_done = FALSE
    /\ NoOps

\* the variables of the controller, which is not involved
ControllerIdle ==
    UNCHANGED << fn_in, fn_out, fn_done, spec, bootstrap_config, store_kind, calls, pc, outcome,
                 iteration, last_phase, max_iterations, max_same_phase, phase_history,
                 persistent, iteration_state, action_index, results, durable_keys, emitted >>

StartOp(name) ==
    /\ op_pc \in {"idle", "crashed"}
    /\ Len(op_log) < MaxOps
    /\ op_log' = Append(op_log, name)
    /\ op_before' = [load |-> StoreLoad, history |-> StoreHistory]

\* store.bootstrap(agent_id, config) is called
StoreBootstrap ==
    /\ StartOp("bootstrap")
    /\ ControllerIdle
    /\ IF store_kind = "mem"
       THEN /\ mem_store' = mem_bootstrap(mem_store, bootstrap_config)
            /\ op_pc' = "idle"
            /\ pending' = [NoPending EXCEPT !.persistent_facts = StoreLoad'.t]
            /\ UNCHANGED fs_store
       ELSE /\ UNCHANGED mem_store
            /\ IF fs_store.file.exists
               THEN /\ op_pc' = "idle"
                    /\ pending' = [NoPending EXCEPT !.persistent_facts = StoreLoad.t]
                    /\ UNCHANGED fs_store
               ELSE /\ fs_store' = fs_open_tmp(fs_store)
                    /\ op_pc' = "fs_boot_dump"
                    /\ pending' = [NoPending EXCEPT !.persistent_facts = fs_seed(bootstrap_config)]

\* store.save(agent_id, iteration_facts, persistent_facts) is called
StoreSave(iteration_facts, facts) ==
    /\ StartOp("save")
    /\ ControllerIdle
    /\ pending' = [iteration_facts |-> iteration_facts, persistent_facts |-> facts]
    /\ IF store_kind = "mem"
       THEN /\ mem_store' = mem_save_history(mem_store, iteration_facts)
            /\ op_pc' = "mem_save_2"
            /\ UNCHANGED fs_store
       ELSE /\ fs_store' = fs_open_tmp(fs_store)
            /\ op_pc' = "fs_save_dump"
            /\ UNCHANGED mem_store

\* the next statement of the operation in progress
StoreStep ==
    /\ op_pc \notin {"idle", "crashed"}
    /\ ControllerIdle
    /\ UNCHANGED << op_log, op_before, pending >>
    /\ IF op_pc = "mem_save_2"
       THEN /\ mem_store' = mem_save_persistent(mem_store, pending.persistent_facts)
            /\ op_pc' = "idle"
            /\ UNCHANGED fs_store
       ELSE /\ UNCHANGED mem_store
            /\ CASE op_pc \in {"fs_save_dump", "fs_boot_dump"} ->
                      /\ fs_store' = fs_write_tmp(fs_store, pending.persistent_facts)
                      /\ op_pc' = IF op_pc = "fs_save_dump" THEN "fs_save_replace"
                                  ELSE "fs_boot_replace"
                 [] op_pc = "fs_save_replace" ->
                      /\ fs_store' = fs_replace(fs_store)
                      /\ op_pc' = "fs_save_append"
                 [] op_pc = "fs_boot_replace" ->
                      /\ fs_store' = fs_replace(fs_store)
                      /\ op_pc' = "idle"
                 [] OTHER ->
                      /\ fs_store' = fs_append_history(fs_store, pending.iteration_facts)
                      /\ op_pc' = "idle"

\* the process dies in the middle of an operation of the filesystem store
StoreCrash ==
    /\ store_kind = "fs"
    /\ op_pc \notin {"idle", "crashed"}
    /\ op_pc' = "crashed"
    /\ ControllerIdle
    /\ UNCHANGED << op_log, op_before, pending, mem_store, fs_store >>

NextStores ==
    \/ StoreBootstrap
    \/ \E iteration_facts \in SaveRecords(Len(op_log) + 1) :
           StoreSave(iteration_facts, iteration_facts.by_action[1].v)
    \/ StoreStep
    \/ StoreCrash

SpecStores == InitStores /\ [][NextStores]_vars

(***************************************************************************)
(* Properties of the controller.                                           *)
(***************************************************************************)
\* the keys of the durable snapshot held by the store
StoreKeys == DictKeys(serialize(StoreLoad.t))

\* the iteration in progress called state_store.save
Saved == ByAction(<<>>, results) # <<>>

\* run() ended at a control gate or at the transition
GateOutcomes ==
    {"completion", "failure", "pause_user", "pause_state", "no_transition", "nondeterministic"}

\* an iteration ended by setting last_phase, and the loop goes on
Transitioned == pc = "loop" /\ phase_history # <<>>

CompletionFires == spec.control_policy.completion_keys \cap StoreKeys # {}

FailureFires == spec.control_policy.failure_keys \cap StoreKeys # {}

UserPauseFires == spec.control_policy.user_required_keys \ StoreKeys # {}

StatePauseFires == spec.control_policy.required_state_keys \ StoreKeys # {}

NoGateFires == ~CompletionFires /\ ~FailureFires /\ ~UserPauseFires /\ ~StatePauseFires

\* C1: at the end of an iteration the gates are decided on the durable keys
\* in the order completion, failure, user pause, state pause; only when no
\* gate fires is the transition policy consulted (a transition, the
\* no-transition return or the non-determinism error).
C1_ControlPrecedence ==
    (outcome \in GateOutcomes \/ Transitioned) =>
        /\ durable_keys = StoreKeys
        /\ CompletionFires => outcome = "completion"
        /\ (~CompletionFires /\ FailureFires) => outcome = "failure"
        /\ (~CompletionFires /\ ~FailureFires /\ UserPauseFires) => outcome = "pause_user"
        /\ (~CompletionFires /\ ~FailureFires /\ ~UserPauseFires /\ StatePauseFires)
               => outcome = "pause_state"
        /\ (Transitioned \/ outcome \in {"no_transition", "nondeterministic"}) => NoGateFires
        /\ NoGateFires => (Transitioned \/ outcome \in {"no_transition", "nondeterministic"})

\* run() returned on completion although a failure key is durable and a
\* user-required key is missing
C1_Witness ==
    /\ outcome = "completion"
    /\ FailureFires
    /\ UserPauseFires

\* C2: during an iteration the store holds what was loaded at its start;
\* after the save at its end it holds the durable facts of the iteration
\* state.
C2_PersistenceBoundary ==
    /\ pc = "exec" => StoreLoad.t = persistent
    /\ (pc = "gates" /\ Saved) =>
           /\ persistent_facts(iteration_state).ok
           /\ DictEq(serialize(StoreLoad.t), serialize(persistent_facts(iteration_state).t))

\* the save at the end of an iteration brought a key into the store that
\* was not loaded at the start of the iteration
C2_Witness ==
    /\ pc = "gates"
    /\ Saved
    /\ StoreKeys \ DictKeys(serialize(persistent)) # {}

\* C3: a fact emitted by an action is read by the later actions of the same
\* iteration with the value it was last emitted with, and the results are
\* collected in the order of the procedure.
C3_EagerVisibility ==
    pc = "exec" =>
        /\ \A key \in DictKeys(emitted) :
               state_getitem(iteration_state, key) = [ok |-> TRUE, value |-> DictGet(emitted, key)]
        /\ \A i \in 1..Len(results) :
               results[i].action = spec.procedures[last_phase][i].name

\* the Facts returned by the actions of the iteration so far, flattened, in
\* the order they were returned
RECURSIVE EmittedPairs(_)
EmittedPairs(res) ==
    IF res = <<>> THEN <<>>
    ELSE (IF ~Head(res).result.raised /\ Head(res).result.is_facts
          THEN iter_facts(Head(res).result.facts, <<>>) ELSE <<>>)
         \o EmittedPairs(Tail(res))

\* the durable facts emitted in the iteration so far, the last one per key
DurableEmitted == DictFromPairs(<<>>, SelectDurable(EmittedPairs(results)))

\* no iteration-scoped fact is in the store
NoIterationFactStored ==
    LET flat == serialize(StoreLoad.t)
    IN \A i \in 1..Len(flat) : flat[i].v.scope # "iteration"

\* an iteration starts with an empty ephemeral map
EphemeralClearedAtStart ==
    (pc = "exec" /\ action_index = 1) => iteration_state.iteration = <<>>

\* C4: iteration-scoped facts are never persisted and are gone at the start
\* of the next iteration; the durable facts emitted in an iteration are in
\* the store after the save of that iteration.
C4_IterationFactsNotPersisted ==
    /\ NoIterationFactStored
    /\ EphemeralClearedAtStart
    /\ (pc = "gates" /\ Saved) =>
           \A key \in DictKeys(DurableEmitted) :
               /\ key \in StoreKeys
               /\ DictGet(serialize(StoreLoad.t), key) = Fact_serialize(DictGet(DurableEmitted, key))

\* the facts of the last result applied, flattened
LastApplied ==
    IF results # <<>> /\ ~results[Len(results)].result.raised
                      /\ results[Len(results)].result.is_facts
    THEN iter_facts(results[Len(results)].result.facts, <<>>)
    ELSE <<>>

NumMatching(rules, keys) == Cardinality({i \in 1..Len(rules) : matches(rules[i], keys)})

\* C6: derive_phase gives None when no rule matches, the enter phase of the
\* rule when exactly one matches, and the non-determinism error when two or
\* more match; exchanging two neighbouring rules changes nothing.
C6_TransitionDeterminism ==
    fn_done =>
        LET rules == fn_in.rules
            n == NumMatching(rules, fn_in.keys)
        IN /\ n = 0 => fn_out.result = [kind |-> "none", phase |-> "-"]
           /\ n = 1 => fn_out.result =
                  [kind |-> "phase",
                   phase |-> rules[CHOOSE i \in 1..Len(rules) : matches(rules[i], fn_in.keys)].enter]
           /\ n >= 2 => fn_out.result = [kind |-> "error", phase |-> "-"]
           /\ \A r \in fn_out.swapped : r = fn_out.result

\* derive_phase was applied to a key set matched by two rules that enter
\* different phases
C6_Witness ==
    /\ fn_done
    /\ \E i, j \in 1..Len(fn_in.rules) :
           /\ i < j
           /\ matches(fn_in.rules[i], fn_in.keys)
           /\ matches(fn_in.rules[j], fn_in.keys)
           /\ fn_in.rules[i].enter # fn_in.rules[j].enter

\* the max_same_phase entries of the phase history that end at entry j are
\* all the same phase
CycleAt(j) ==
    /\ j >= max_same_phase
    /\ \A i \in (j - max_same_phase + 1)..j : phase_history[i] = phase_history[j]

\* C7: run() raises the cycle error at the first iteration whose phase and
\* the phases of the max_same_phase - 1 iterations before it are equal, and
\* at no other iteration; older entries of the history do not count.
C7_CycleDetection ==
    /\ \A j \in 1..Len(phase_history) :
           CycleAt(j) <=> (j = Len(phase_history) /\ outcome = "cycle")
    /\ outcome = "cycle" => (pc = "raised" /\ phase_history # <<>>)

\* the cycle error was raised on a history that is longer than
\* max_same_phase and begins with another phase
C7_Witness ==
    /\ outcome = "cycle"
    /\ Len(phase_history) > max_same_phase
    /\ phase_history[1] # phase_history[Len(phase_history)]

\* C8: no iteration is executed once the counter has reached max_iterations;
\* the max-iterations error is raised exactly when the iteration that brings
\* the counter to max_iterations ends with a transition; completion and
\* failure return.
C8_LoopGuard ==
    [][ /\ pc' \in {"exec", "save_1", "save_2", "save_3", "gates"} => iteration' <= max_iterations'
        /\ (Transitioned /\ iteration >= max_iterations) =>
               (pc' = "raised" /\ outcome' = "max_iterations" /\ iteration' = iteration)
        /\ (outcome' = "max_iterations" /\ phase_history' # <<>>) =>
               /\ Transitioned
               /\ iteration = max_iterations
               /\ NoGateFires
               /\ NumMatching(spec.transition_policy.rules, StoreKeys) = 1
        /\ outcome' \in {"completion", "failure"} => pc' = "returned"
      ]_vars

\* the max-iterations error was raised after the iteration that brought the
\* counter to max_iterations
C8_Witness ==
    /\ outcome = "max_iterations"
    /\ pc = "raised"
    /\ phase_history # <<>>
    /\ iteration = max_iterations

\* C9 as stated: run() is not aborted by an action whose instruction raises.
C9_ActionFailureNonFatal == ~(pc = "raised" /\ outcome = "action_error")

\* C9: an action whose instruction raises aborts run(): the exception leaves
\* run(), the later actions of the procedure are not performed, nothing is
\* saved, and the store holds what was loaded at the start of the iteration.
C9_ActionFailureAborts ==
    /\ \A i \in 1..Len(results) : ~results[i].result.raised
    /\ outcome = "action_error" =>
           /\ pc = "raised"
           /\ action_index <= Len(spec.procedures[last_phase])
           /\ Len(results) = action_index - 1
           /\ pending = NoPending
           /\ StoreLoad.t = persistent

\* run() was aborted by a raising action after an earlier action of the
\* iteration had emitted a durable fact, which the store does not hold
C9_Witness ==
    /\ outcome = "action_error"
    /\ results # <<>>
    /\ DictKeys(iteration_state.persistent) \ StoreKeys # {}

\* durable state exists for the agent in the store
StoreExists == IF store_kind = "mem" THEN mem_store.present ELSE fs_store.file.exists

\* C10: a bootstrap on a store that already holds durable state for the
\* agent changes neither load(agent_id) nor history(agent_id).
C10_BootstrapIdempotent ==
    [][ (pc' = "idle" /\ StoreExists) =>
            (StoreLoad' = StoreLoad /\ StoreHistory' = StoreHistory) ]_vars

(***************************************************************************)
(* Properties of the stores.                                               *)
(***************************************************************************)
\* the keys a configuration seeds
ExpectedSeedKeys(config) ==
    (IF config.has_goal THEN {kGoal} ELSE {})
    \cup (IF config.has_repo THEN {kRepoRoot} ELSE {})
    \cup (IF config.has_repo /\ config.has_ignore THEN {kRepoIgnore} ELSE {})

\* bootstrap was the only operation on the store, and it is over
BootstrappedFresh == op_pc = "idle" /\ op_log = << "bootstrap" >>

\* C11: after bootstrap on a fresh store, load gives in both variants the
\* same keys, values and scopes: session facts goal, repo_root and
\* repo_ignore for the sections of the configuration that are present, and
\* nothing for an absent section.
C11_BootstrapEquivalence ==
    BootstrappedFresh =>
        LET got == serialize(StoreLoad.t)
        IN /\ StoreLoad.ok
           /\ DictKeys(got) = ExpectedSeedKeys(bootstrap_config)
           /\ \A key \in DictKeys(got) :
                  DictGet(got, key) = [key |-> key, value |-> SeedValue(key), scope |-> "session"]

\* the filesystem store was bootstrapped with a repo section whose ignore
\* list is empty and without a goal
C11_Witness ==
    /\ BootstrappedFresh
    /\ store_kind = "fs"
    /\ bootstrap_config = BootstrapConfig(FALSE, TRUE, FALSE)
    /\ StoreKeys = {kRepoRoot}

\* C12: the snapshot file of the filesystem store changes only by the
\* rename of a wholly written temporary file over it; at every step of a
\* save or bootstrap, and after a crash at any step, load gives the whole
\* snapshot of before the operation or the whole new one.
C12_AtomicSnapshot ==
    /\ [](store_kind = "fs" =>
            /\ StoreLoad.ok
            /\ \/ StoreLoad = op_before.load
               \/ DictEq(serialize(StoreLoad.t), serialize(pending.persistent_facts)))
    /\ [][ (store_kind = "fs" /\ fs_store'.file # fs_store.file) =>
              (fs_store.tmp.exists /\ fs_store.tmp.whole /\ fs_store'.file = fs_store.tmp)
        ]_vars

\* the process died in a save while the temporary file was partly written,
\* and the snapshot file exists
C12_Witness ==
    /\ store_kind = "fs"
    /\ op_pc = "crashed"
    /\ op_log[Len(op_log)] = "save"
    /\ fs_store.tmp.exists
    /\ ~fs_store.tmp.whole
    /\ fs_store.file.exists

\* the record history(agent_id) gives for a saved IterationFacts: the
\* IterationFacts itself in memory, a dict with the phase as its name read
\* back from the history file
ExpectedRecord(iteration_facts) ==
    IF store_kind = "mem" THEN iteration_facts
    ELSE [iteration |-> iteration_facts.iteration,
          phase |-> [kind |-> "str", name |-> iteration_facts.phase.name],
          by_action |-> [i \in 1..Len(iteration_facts.by_action) |->
                            [k |-> iteration_facts.by_action[i].k,
                             v |-> serialize(iteration_facts.by_action[i].v)]]]

\* C13: a save appends exactly one record to the history and leaves the
\* earlier records as they are and in their order; without a save the
\* history is empty; the filesystem variant gives the phase as its name.
C13_HistoryAppendOnly ==
    [][ /\ (op_log' # <<>> /\ op_log'[Len(op_log')] = "save") =>
               LET rec == ExpectedRecord(pending'.iteration_facts)
               IN /\ StoreHistory' \in { op_before'.history, Append(op_before'.history, rec) }
                  /\ op_pc' = "idle" => StoreHistory' = Append(op_before'.history, rec)
        /\ (\A i \in 1..Len(op_log') : op_log'[i] # "save") => StoreHistory' = <<>>
      ]_vars

\* two saves on the filesystem store are over and the history holds their
\* two records
C13_Witness ==
    /\ store_kind = "fs"
    /\ op_pc = "idle"
    /\ Len(op_log) >= 2
    /\ op_log[Len(op_log)] = "save"
    /\ Len(StoreHistory) = 2
    /\ StoreHistory[1].iteration < StoreHistory[2].iteration

(***************************************************************************)
(* Properties of the controller and its store.                             *)
(***************************************************************************)
\* one controller has been constructed, on a fresh store
SingleController == calls.init = 1

\* the record of the iteration in progress, as history(agent_id) gives it
ThisIterationRecord ==
    ExpectedRecord([iteration |-> iteration,
                    phase |-> [kind |-> "enum", name |-> last_phase],
                    by_action |-> ByAction(<<>>, results)])

DurableMapKeys == DictKeys(iteration_state.persistent)

\* the iteration is at its end and the durable projection did not fail
AtGates == pc = "gates" /\ persistent_facts(iteration_state).ok

\* a completion or failure key is durable at the end of the iteration
TerminalKeys ==
    (spec.control_policy.completion_keys \cup spec.control_policy.failure_keys)
        \cap DurableMapKeys

\* C15: with a completion or failure key durable at the end of an
\* iteration, run() returns after that iteration without an error and
\* without a transition: the phase and the iteration counter stay, and the
\* store holds the key before the gates are evaluated.
C15_TerminalGatesStop ==
    /\ [][ (AtGates /\ TerminalKeys # {}) =>
              /\ pc' = "returned"
              /\ outcome' \in {"completion", "failure"}
              /\ last_phase' = last_phase
              /\ iteration' = iteration
              /\ TerminalKeys \subseteq StoreKeys
              /\ mem_store' = mem_store
              /\ fs_store' = fs_store
        ]_vars
    /\ [](outcome \in {"completion", "failure"} =>
             (pc = "returned" /\ last_phase = phase_history[Len(phase_history)]))

\* run() returned on completion although two rules match the durable keys
C15_Witness ==
    /\ outcome = "completion"
    /\ pc = "returned"
    /\ NumMatching(spec.transition_policy.rules, StoreKeys) >= 2

\* a pause gate fires, or no rule matches, and neither completion nor
\* failure does
PauseOrNoRule ==
    /\ TerminalKeys = {}
    /\ \/ spec.control_policy.user_required_keys \ DurableMapKeys # {}
       \/ spec.control_policy.required_state_keys \ DurableMapKeys # {}
       \/ NumMatching(spec.transition_policy.rules, DurableMapKeys) = 0

\* C16: when a pause gate fires or no rule matches, run() returns without
\* raising, the phase stays, and load gives the durable facts of the
\* iteration that just ended.
C16_PauseLeavesStoreConsistent ==
    /\ [][ (AtGates /\ PauseOrNoRule) =>
              /\ pc' = "returned"
              /\ outcome' \in {"pause_user", "pause_state", "no_transition"}
              /\ last_phase' = last_phase
              /\ mem_store' = mem_store
              /\ fs_store' = fs_store
        ]_vars
    /\ [](outcome \in {"pause_user", "pause_state", "no_transition"} =>
             /\ pc = "returned"
             /\ last_phase = phase_history[Len(phase_history)]
             /\ DictEq(serialize(StoreLoad.t), serialize(persistent_facts(iteration_state).t)))

\* run() returned because no rule matched, after an iteration that saved
C16_Witness ==
    /\ outcome = "no_transition"
    /\ Saved
    /\ StoreKeys # {}

\* what the end of an iteration does on a set of durable keys:
\* << pc, outcome, last_phase >>
DecisionOf(agent, keys, phase) ==
    LET cp == agent.control_policy
        rules == agent.transition_policy.rules
        n == NumMatching(rules, keys)
    IN IF cp.completion_keys \cap keys # {} THEN << "returned", "completion", phase >>
       ELSE IF cp.failure_keys \cap keys # {} THEN << "returned", "failure", phase >>
       ELSE IF cp.user_required_keys \ keys # {} THEN << "returned", "pause_user", phase >>
       ELSE IF cp.required_state_keys \ keys # {} THEN << "returned", "pause_state", phase >>
       ELSE IF n = 0 THEN << "returned", "no_transition", phase >>
       ELSE IF n > 1 THEN << "raised", "nondeterministic", phase >>
       ELSE << "loop", "-", rules[CHOOSE i \in 1..Len(rules) : matches(rules[i], keys)].enter >>

\* the keys that are in the iteration state with scope iteration only
EphemeralOnlyKeys == DictKeys(iteration_state.iteration) \ DurableMapKeys

\* C17: what run() does at the end of an iteration is a function of the
\* spec and the durable keys alone; facts of scope iteration are not among
\* the durable keys and satisfy no completion, failure, required or rule
\* key.
C17_DecisionsFromDurableFacts ==
    /\ [][ AtGates => << pc', outcome', last_phase' >> = DecisionOf(spec, DurableMapKeys, last_phase)
        ]_vars
    /\ [](\A i \in 1..Len(iteration_state.persistent) :
              iteration_state.persistent[i].v.scope # "iteration")

\* run() went on to the next iteration although the completion key was in
\* the iteration state, with scope iteration
C17_Witness ==
    /\ Transitioned
    /\ spec.control_policy.completion_keys \cap EphemeralOnlyKeys # {}

(***************************************************************************)
(* AgentSpec construction (spec.py, validation.py) applied on its own, to  *)
(* the arguments of SpecArgs; derive_phase is then applied to the policy   *)
(* of a spec that was constructed.                                         *)
(***************************************************************************)
MaxSpecRules == 2

\* a member of an Enum class, or (cls "str") a value that is not one
PhaseMember(cls, name) == [cls |-> cls, name |-> name]

PhaseP0 == PhaseMember("Phase", "P0")
PhaseP1 == PhaseMember("Phase", "P1")
OtherQ0 == PhaseMember("Other", "Q0")
NotEnum == PhaseMember("str", "P0")

\* isinstance(p, Enum)
IsEnumMember(p) == p.cls # "str"

\* an action class with its emits declaration (a dict key -> scope)
DeclaredAction(name, emits) == [name |-> name, emits |-> emits]

\* ProcedureTemplate.__init__: the attributes are name and _actions
ProcedureTemplate(name, actions) == [name |-> name, _actions |-> actions]

\* hasattr / getattr on an object
HasAttr(obj, attr) == attr \in DOMAIN obj

kX == <<"x">>
kY == <<"y">>
ValidateKeys == {kX, kY}

\* str.strip on a string of characters
RECURSIVE lstrip(_)
lstrip(str) ==
    IF str # <<>> /\ Head(str) = " " THEN lstrip(Tail(str)) ELSE str

RECURSIVE rstrip(_)
rstrip(str) ==
    IF str # <<>> /\ str[Len(str)] = " " THEN rstrip(SubSeq(str, 1, Len(str) - 1)) ELSE str

strip(str) == rstrip(lstrip(str))

SpecRuleUniverse ==
    { PhaseRule(PhaseP0, {kX}, {}, {}),
      PhaseRule(PhaseP1, {kX}, {}, {}),
      PhaseRule(PhaseP1, {kY}, {}, {}),
      PhaseRule(PhaseP1, {kX}, {}, {kY}),
      PhaseRule(PhaseP0, {kX}, {kY}, {}) }

SpecTemplates ==
    { ProcedureTemplate("t", <<>>),
      ProcedureTemplate("t", << DeclaredAction("Act", << [k |-> kDone, v |-> "iteration"] >>) >>),
      ProcedureTemplate("t", << DeclaredAction("Act", << [k |-> kDone, v |-> "session"] >>) >>) }

\* the arguments AgentSpec is constructed with
SpecArgs ==
    [name : {<<>>, <<" ">>, <<"a", " ">>},
     version : {<<"1">>, <<" ", " ">>},
     phases : {{}, {PhaseP0}, {PhaseP1}, {PhaseP0, PhaseP1}, {PhaseP0, OtherQ0},
               {PhaseP0, NotEnum}},
     control_policy : {ControlPolicy({}, {}, {kDone}, {}),
                       ControlPolicy({}, {}, {kDone}, {kDone})},
     transition_policy : { TransitionPolicy(rules, default) :
                              rules \in UNION { [1..n -> SpecRuleUniverse] : n \in 0..MaxSpecRules },
                              default \in {PhaseP0, PhaseP1} },
     procedures : { [ph \in keys |-> template] :
                       keys \in {{}, {PhaseP0}, {PhaseP0, PhaseP1}},
                       template \in SpecTemplates },
     validate_emissions : BOOLEAN]

\* the _validate_* methods give the exception raised, or "none"
_validate_name_and_version(self) ==
    IF self.name = <<>> \/ strip(self.name) = <<>> THEN "ValueError"
    ELSE IF self.version = <<>> \/ strip(self.version) = <<>> THEN "ValueError"
    ELSE "none"

_validate_phases(self) ==
    IF self.phases = {} THEN "ValueError"
    ELSE IF \E p \in self.phases : ~IsEnumMember(p) THEN "TypeError"
    ELSE IF Cardinality({ p.cls : p \in self.phases }) > 1 THEN "TypeError"
    ELSE "none"

\* [raised, warnings]
_validate_procedures(self) ==
    LET missing == self.phases \ DOMAIN self.procedures
        extra == DOMAIN self.procedures \ self.phases
    IN IF missing # {} THEN [raised |-> "ValueError", warnings |-> {}]
       ELSE [raised |-> "none",
             warnings |-> IF extra # {} THEN {"undefined_phases"} ELSE {}]

\* a check that rejects every two rules with the same when_all
_check_rule_determinism_when_all_only(self) ==
    LET rules == self.transition_policy.rules
    IN IF \E i \in 1..Len(rules) : \E j \in (i + 1)..Len(rules) :
              rules[i].when_all = rules[j].when_all
       THEN "ValueError"
       ELSE "none"

_check_rule_determinism(self) ==
    LET rules == self.transition_policy.rules
    IN IF \E i \in 1..Len(rules) : \E j \in (i + 1)..Len(rules) :
              /\ rules[i].when_all = rules[j].when_all
              /\ rules[i].when_any = {} /\ rules[i].when_none = {}
              /\ rules[j].when_any = {} /\ rules[j].when_none = {}
       THEN "ValueError"
       ELSE "none"

\* a validation that does not look at the default phase
_validate_transition_policy_rules_only(self) ==
    IF \E i \in 1..Len(self.transition_policy.rules) :
          self.transition_policy.rules[i].enter \notin self.phases
    THEN "ValueError"
    ELSE _check_rule_determinism(self)

_validate_transition_policy(self) ==
    IF self.transition_policy.default \notin self.phases THEN "ValueError"
    ELSE IF \E i \in 1..Len(self.transition_policy.rules) :
               self.transition_policy.rules[i].enter \notin self.phases
    THEN "ValueError"
    ELSE _check_rule_determinism(self)

\* a validation that accepts every control policy
_validate_control_policy_off(self) == "none"

_validate_control_policy(self) ==
    IF self.control_policy.completion_keys \cap self.control_policy.failure_keys # {}
    THEN "ValueError"
    ELSE "none"

\* validation._check_fact_scope: the set of issues for one reference
_check_fact_scope(key, emissions, referenced_by) ==
    IF ~DictHas(emissions, key)
    THEN { [fact_key |-> key, actual_scope |-> "None", emitting_action |-> "None",
            referenced_by |-> referenced_by, severity |-> "warning"] }
    ELSE IF DictGet(emissions, key).scope = "iteration"
    THEN { [fact_key |-> key, actual_scope |-> "iteration",
            emitting_action |-> DictGet(emissions, key).action,
            referenced_by |-> referenced_by, severity |-> "error"] }
    ELSE {}

\* validation.validate_fact_scopes: [raised, issues].  The loop over the
\* procedures reads template.actions, an attribute a ProcedureTemplate does
\* not have: its first turn raises AttributeError, and the emissions are
\* collected from no action.
validate_fact_scopes(procedures, transition_policy, control_policy) ==
    LET emissions == <<>>
        rules == transition_policy.rules
    IN IF \E phase \in DOMAIN procedures : ~HasAttr(procedures[phase], "actions")
       THEN [raised |-> "AttributeError", issues |-> {}]
       ELSE [raised |-> "none",
             issues |->
                UNION ( { _check_fact_scope(key, emissions, "when_all") :
                            key \in UNION { rules[i].when_all : i \in 1..Len(rules) } }
                   \cup { _check_fact_scope(key, emissions, "when_none") :
                            key \in UNION { rules[i].when_none : i \in 1..Len(rules) } }
                   \cup { _check_fact_scope(key, emissions, "completion_keys") :
                            key \in control_policy.completion_keys }
                   \cup { _check_fact_scope(key, emissions, "failure_keys") :
                            key \in control_policy.failure_keys }
                   \cup { _check_fact_scope(key, emissions, "required_state_keys") :
                            key \in control_policy.required_state_keys }
                   \cup { _check_fact_scope(key, emissions, "user_required_keys") :
                            key \in control_policy.user_required_keys } )]

\* [raised, warnings]
_validate_fact_scopes(self) ==
    LET got == validate_fact_scopes(self.procedures, self.transition_policy,
                                    self.control_policy)
    IN IF got.raised # "none" THEN [raised |-> got.raised, warnings |-> {}]
       ELSE IF \E i \in got.issues : i.severity = "error"
       THEN [raised |-> "FactScopeError", warnings |-> {}]
       ELSE [raised |-> "none",
             warnings |-> { i.fact_key : i \in { j \in got.issues : j.severity = "warning" } }]

\* the ValueError of _validate_transition_policy: "default" (unknown default
\* phase), "rule_target" (a rule enters an unknown phase), "overlap" (from
\* _check_rule_determinism), or "none"
_validate_transition_policy_message(self) ==
    IF self.transition_policy.default \notin self.phases THEN "default"
    ELSE IF \E i \in 1..Len(self.transition_policy.rules) :
               self.transition_policy.rules[i].enter \notin self.phases
    THEN "rule_target"
    ELSE IF _check_rule_determinism(self) # "none" THEN "overlap"
    ELSE "none"

\* a validation that looks at the control policy first
_validate_control_policy_first(self) ==
    LET procs == _validate_procedures(self)
        scopes == _validate_fact_scopes(self)
    IN IF _validate_control_policy(self) # "none"
       THEN [raised |-> _validate_control_policy(self), warnings |-> {},
             failed |-> "control_policy"]
       ELSE IF _validate_name_and_version(self) # "none"
       THEN [raised |-> _validate_name_and_version(self), warnings |-> {},
             failed |-> "name_and_version"]
       ELSE IF _validate_phases(self) # "none"
       THEN [raised |-> _validate_phases(self), warnings |-> {}, failed |-> "phases"]
       ELSE IF procs.raised # "none"
       THEN [raised |-> procs.raised, warnings |-> {}, failed |-> "procedures"]
       ELSE IF _validate_transition_policy(self) # "none"
       THEN [raised |-> _validate_transition_policy(self), warnings |-> procs.warnings,
             failed |-> "transition_policy"]
       ELSE IF ~self.validate_emissions
       THEN [raised |-> "none", warnings |-> procs.warnings, failed |-> "none"]
       ELSE [raised |-> scopes.raised, warnings |-> procs.warnings \cup scopes.warnings,
             failed |-> IF scopes.raised # "none" THEN "fact_scopes" ELSE "none"]

\* AgentSpec._validate, called by __post_init__: [raised, warnings, failed],
\* failed the method that raised
_validate(self) ==
    LET procs == _validate_procedures(self)
        scopes == _validate_fact_scopes(self)
    IN IF _validate_name_and_version(self) # "none"
       THEN [raised |-> _validate_name_and_version(self), warnings |-> {},
             failed |-> "name_and_version"]
       ELSE IF _validate_phases(self) # "none"
       THEN [raised |-> _validate_phases(self), warnings |-> {}, failed |-> "phases"]
       ELSE IF procs.raised # "none"
       THEN [raised |-> procs.raised, warnings |-> {}, failed |-> "procedures"]
       ELSE IF _validate_transition_policy(self) # "none"
       THEN [raised |-> _validate_transition_policy(self), warnings |-> procs.warnings,
             failed |-> "transition_policy"]
       ELSE IF _validate_control_policy(self) # "none"
       THEN [raised |-> _validate_control_policy(self), warnings |-> procs.warnings,
             failed |-> "control_policy"]
       ELSE IF ~self.validate_emissions
       THEN [raised |-> "none", warnings |-> procs.warnings, failed |-> "none"]
       ELSE [raised |-> scopes.raised, warnings |-> procs.warnings \cup scopes.warnings,
             failed |-> IF scopes.raised # "none" THEN "fact_scopes" ELSE "none"]

NotDerived == [kind |-> "-", phase |-> "-"]

InitValidate ==
    /\ Frozen
    /\ NoOps
    /\ fn_in \in SpecArgs
    /\ fn_out = <<>>
    /\ fn_done = FALSE

\* AgentSpec(...)
ConstructSpec ==
    /\ ~fn_done
    /\ fn_out' = [raised |-> _validate(fn_in).raised,
                  warnings |-> _validate(fn_in).warnings,
                  failed |-> _validate(fn_in).failed,
                  determinism |-> _check_rule_determinism(fn_in),
                  message |-> IF _validate(fn_in).failed = "transition_policy"
                              THEN _validate_transition_policy_message(fn_in) ELSE "-",
                  keys |-> {},
                  derived |-> NotDerived]
    /\ fn_done' = TRUE
    /\ UNCHANGED << fn_in, op_pc, op_log, op_before, spec, bootstrap_config, store_kind,
                    mem_store, fs_store, calls, pc,
                    outcome, iteration, last_phase, max_iterations, max_same_phase,
                    phase_history, persistent, iteration_state, action_index, results,
                    pending, durable_keys, emitted >>

\* spec.transition_policy.derive_phase(keys) on a spec that was constructed
DeriveConstructed ==
    /\ fn_done
    /\ fn_out.raised = "none"
    /\ fn_out.derived.kind = NotDerived.kind
    /\ \E keys \in SUBSET ValidateKeys :
          fn_out' = [fn_out EXCEPT !.keys = keys,
                                   !.derived = derive_phase(fn_in.transition_policy, keys)]
    /\ UNCHANGED << fn_in, fn_done, op_pc, op_log, op_before, spec, bootstrap_config,
                    store_kind, mem_store, fs_store, calls, pc,
                    outcome, iteration, last_phase, max_iterations, max_same_phase,
                    phase_history, persistent, iteration_state, action_index, results,
                    pending, durable_keys, emitted >>

NextValidate == ConstructSpec \/ DeriveConstructed

SpecValidate == InitValidate /\ [][NextValidate]_vars

(***************************************************************************)
(* Properties of AgentSpec construction.                                   *)
(***************************************************************************)
Constructed == fn_done /\ fn_out.raised = "none"

\* the keys the policies of a spec refer to (when_all, when_none and the
\* four key sets of the control policy)
ReferencedKeys(self) ==
    UNION { self.transition_policy.rules[i].when_all \cup self.transition_policy.rules[i].when_none :
              i \in 1..Len(self.transition_policy.rules) }
      \cup self.control_policy.completion_keys \cup self.control_policy.failure_keys
      \cup self.control_policy.required_state_keys \cup self.control_policy.user_required_keys

\* the scopes with which the actions of the procedures declare a key
DeclaredScopes(self, key) ==
    UNION { UNION { { self.procedures[ph]._actions[i].emits[n].v :
                        n \in { m \in 1..Len(self.procedures[ph]._actions[i].emits) :
                                  self.procedures[ph]._actions[i].emits[m].k = key } } :
                    i \in 1..Len(self.procedures[ph]._actions) } :
            ph \in DOMAIN self.procedures }

\* the checks that come before the scope validation pass
ChecksBeforeScopesPass(self) ==
    /\ _validate_name_and_version(self) = "none"
    /\ _validate_phases(self) = "none"
    /\ _validate_procedures(self).raised = "none"
    /\ _validate_transition_policy(self) = "none"
    /\ _validate_control_policy(self) = "none"

\* C18: with scope validation enabled, a spec that passes the other checks
\* fails with FactScopeError when a referenced key is declared with scope
\* iteration only, and is constructed (with warnings) otherwise.
C18_ValidatorSoundness ==
    (fn_done /\ fn_in.validate_emissions /\ ChecksBeforeScopesPass(fn_in)) =>
        fn_out.raised =
            (IF \E key \in ReferencedKeys(fn_in) : DeclaredScopes(fn_in, key) = {"iteration"}
             THEN "FactScopeError" ELSE "none")

\* C19: no key set is matched by two rules of a constructed spec, and
\* derive_phase on its policy does not raise.
C19_ConstructedIsDeterministic ==
    Constructed =>
        /\ \A keys \in SUBSET ValidateKeys :
              NumMatching(fn_in.transition_policy.rules, keys) <= 1
        /\ fn_out.derived.kind # "error"

\* the procedures of the phases of the spec only
WithoutExtraProcedures(self) ==
    [self EXCEPT !.procedures = [ph \in DOMAIN self.procedures \cap self.phases |->
                                    self.procedures[ph]]]

\* C20: a constructed AgentSpec has a name and a version that are not
\* blank, a non-empty set of phases that are members of one Enum class, a
\* procedure for every phase, and a default phase and rule targets among
\* its phases; procedures for other phases add a warning and change
\* nothing else.
C20_ConstructedIsWellFormed ==
    /\ Constructed =>
          /\ \E i \in 1..Len(fn_in.name) : fn_in.name[i] # " "
          /\ \E i \in 1..Len(fn_in.version) : fn_in.version[i] # " "
          /\ fn_in.phases # {}
          /\ \A p \in fn_in.phases : IsEnumMember(p)
          /\ \A p, q \in fn_in.phases : p.cls = q.cls
          /\ fn_in.phases \subseteq DOMAIN fn_in.procedures
          /\ fn_in.transition_policy.default \in fn_in.phases
          /\ \A i \in 1..Len(fn_in.transition_policy.rules) :
                fn_in.transition_policy.rules[i].enter \in fn_in.phases
          /\ "undefined_phases" \in fn_out.warnings
                <=> DOMAIN fn_in.procedures \ fn_in.phases # {}
    /\ fn_done => fn_out.raised = _validate(WithoutExtraProcedures(fn_in)).raised

\* a spec was constructed with a procedure for a phase it does not have
C20_Witness ==
    /\ Constructed
    /\ DOMAIN fn_in.procedures \ fn_in.phases # {}
    /\ "undefined_phases" \in fn_out.warnings

(***************************************************************************)
(* Properties of ControlPolicy construction.                               *)
(***************************************************************************)
\* a key is in completion_keys and in failure_keys
SharedControlKeys(policy) == policy.completion_keys \cap policy.failure_keys

MaxEntries == 3

\* the sequences of distinct elements of a set, as the key order of a dict
OrderedKeys(keys, max) ==
    { s \in UNION { [1..n -> keys] : n \in 0..max } :
        \A i, j \in 1..Len(s) : i # j => s[i] # s[j] }

\* the leaves a mapping key can hold in a Facts built by Facts.__init__
LeavesAt(key) ==
    { Leaf(Fact(key, "v1", "session", "KnowledgeFact")),
      Leaf(Fact(key, "v2", "iteration", "Fact")) }

\* the dicts with the keys of a set, in any order, the item of a key drawn
\* from Items[key]
DictsOver(keys, Items, max) ==
    UNION { { [i \in 1..Len(s) |-> [k |-> s[i], v |-> pick[i]]] :
                pick \in { p \in [1..Len(s) -> UNION { Items[k] : k \in keys }] :
                             \A i \in 1..Len(s) : p[i] \in Items[s[i]] } } :
            s \in OrderedKeys(keys, max) }

\* the number of leaves and groups of a tree
RECURSIVE Entries(_)
Entries(facts) ==
    IF facts = <<>> THEN 0
    ELSE 1 + (IF Head(facts).v.leaf THEN 0 ELSE Entries(Head(facts).v.sub))
           + Entries(Tail(facts))

TreeKeys == {kA, kB}

\* the trees of one level
FlatTrees == DictsOver(TreeKeys, [key \in TreeKeys |-> LeavesAt(key)], MaxEntries - 1)

\* the trees of at most two levels and MaxEntries entries
FactsTrees ==
    { t \in DictsOver(TreeKeys,
                      [key \in TreeKeys |-> LeavesAt(key) \cup { Group(sub) : sub \in FlatTrees }],
                      MaxEntries) :
        Entries(t) <= MaxEntries }

\* a tree has a nested group with nothing in it
RECURSIVE HasEmptyGroup(_)
HasEmptyGroup(facts) ==
    \E i \in 1..Len(facts) :
        ~facts[i].v.leaf /\ (facts[i].v.sub = <<>> \/ HasEmptyGroup(facts[i].v.sub))

FlatKeys == {kA, kB, kAB, <<"b", ".", "a">>}

\* the last part of a dotted key
LastPart(key) == LET parts == Split(key, <<>>) IN parts[Len(parts)]

\* the flat mappings from dotted keys to Facts
FlatDicts ==
    DictsOver(FlatKeys,
              [key \in FlatKeys |-> { l.fact : l \in LeavesAt(LastPart(key)) }],
              MaxEntries)

\* Facts.__eq__ is dict.__eq__: the same keys, equal items, whatever the
\* order; a Fact equals a Fact of the same class with the same fields
RECURSIVE FactsEq(_, _)
FactsEq(t1, t2) ==
    /\ DictKeys(t1) = DictKeys(t2)
    /\ \A key \in DictKeys(t1) :
          LET a == DictGet(t1, key)
              b == DictGet(t2, key)
          IN /\ a.leaf = b.leaf
             /\ IF a.leaf THEN a.fact = b.fact ELSE FactsEq(a.sub, b.sub)

\* the controller and the stores are not involved
RestUnchanged ==
    UNCHANGED << op_pc, op_log, op_before, spec, bootstrap_config, store_kind,
                 mem_store, fs_store, calls, pc,
                 outcome, iteration, last_phase, max_iterations, max_same_phase,
                 phase_history, persistent, iteration_state, action_index, results,
                 pending, durable_keys, emitted >>

InitFacts ==
    /\ Frozen
    /\ NoOps
    /\ fn_in \in { [kind |-> "tree", arg |-> t] : t \in FactsTrees }
            \cup { [kind |-> "flat", arg |-> f] : f \in FlatDicts }
    /\ fn_out = <<>>
    /\ fn_done = FALSE

\* X.flatten(), Facts.unflatten(X.flatten()), X.serialize(),
\* Facts.deserialize(X.serialize())
TransformTree ==
    /\ ~fn_done
    /\ fn_in.kind = "tree"
    /\ fn_out' = [flat |-> flatten(fn_in.arg),
                  unflat |-> unflatten(flatten(fn_in.arg)),
                  ser |-> serialize(fn_in.arg),
                  deser |-> deserialize(serialize(fn_in.arg))]
    /\ fn_done' = TRUE
    /\ UNCHANGED fn_in
    /\ RestUnchanged

\* Facts.unflatten(F), Facts.unflatten(F).flatten()
TransformFlat ==
    /\ ~fn_done
    /\ fn_in.kind = "flat"
    /\ fn_out' = [tree |-> unflatten(fn_in.arg),
                  reflat |-> IF unflatten(fn_in.arg).ok
                             THEN flatten(unflatten(fn_in.arg).t) ELSE <<>>]
    /\ fn_done' = TRUE
    /\ UNCHANGED fn_in
    /\ RestUnchanged

NextFacts == TransformTree \/ TransformFlat

SpecFacts == InitFacts /\ [][NextFacts]_vars

(***************************************************************************)
(* Properties of Facts.                                                    *)
(***************************************************************************)
\* key p is a dotted prefix of key k
IsDottedPrefix(p, k) ==
    /\ Len(k) > Len(p) + 1
    /\ SubSeq(k, 1, Len(p) + 1) = p \o << "." >>

\* no key of a flat mapping is a dotted prefix of another
NoPrefixConflict(flat) ==
    \A k1, k2 \in DictKeys(flat) : ~IsDottedPrefix(k1, k2)

DoneTree == fn_done /\ fn_in.kind = "tree"

DoneFlat == fn_done /\ fn_in.kind = "flat"

\* for a flat mapping without prefix conflicts, flatten undoes unflatten
FlatRoundTrip ==
    (DoneFlat /\ NoPrefixConflict(fn_in.arg)) =>
        (fn_out.tree.ok /\ DictEq(fn_out.reflat, fn_in.arg))

\* C22 (as claimed): unflatten undoes flatten for every tree, empty nested
\* groups included, and flatten undoes unflatten for every flat mapping in
\* which no key is a dotted prefix of another.
C22_FlattenUnflattenIsomorphism ==
    /\ DoneTree => (fn_out.unflat.ok /\ FactsEq(fn_out.unflat.t, fn_in.arg))
    /\ FlatRoundTrip

\* C22 (amended): unflatten undoes flatten exactly for the trees without an
\* empty nested group (an empty group has no leaf and is dropped, the
\* leaves are the same); flatten undoes unflatten for every flat mapping
\* in which no key is a dotted prefix of another.
C22_FlattenUnflattenWithoutEmptyGroups ==
    /\ DoneTree =>
          /\ fn_out.unflat.ok
          /\ DictEq(flatten(fn_out.unflat.t), fn_out.flat)
          /\ FactsEq(fn_out.unflat.t, fn_in.arg) <=> ~HasEmptyGroup(fn_in.arg)
    /\ FlatRoundTrip

\* a tree with a leaf in a nested group went through flatten and unflatten
\* and came back equal
C22_Witness ==
    /\ DoneTree
    /\ \E i \in 1..Len(fn_in.arg) : ~fn_in.arg[i].v.leaf /\ fn_in.arg[i].v.sub # <<>>
    /\ Len(fn_in.arg) = 2
    /\ FactsEq(fn_out.unflat.t, fn_in.arg)

\* equality of two trees up to the class of the facts: the same nesting
\* and, leaf by leaf, the same key, value and scope
RECURSIVE FactsEqByValue(_, _)
FactsEqByValue(t1, t2) ==
    /\ DictKeys(t1) = DictKeys(t2)
    /\ \A key \in DictKeys(t1) :
          LET a == DictGet(t1, key)
              b == DictGet(t2, key)
          IN /\ a.leaf = b.leaf
             /\ IF a.leaf THEN Fact_serialize(a.fact) = Fact_serialize(b.fact)
                          ELSE FactsEqByValue(a.sub, b.sub)

\* serialize maps the fully qualified key of every leaf to the key, value
\* and scope of its fact, and has no other key
SerializedIsFlat ==
    DoneTree =>
        LET pairs == iter_facts(fn_in.arg, <<>>)
        IN /\ DictKeys(fn_out.ser) = { pairs[i].k : i \in 1..Len(pairs) }
           /\ \A i \in 1..Len(pairs) :
                 DictGet(fn_out.ser, pairs[i].k)
                     = [key |-> pairs[i].v.key, value |-> pairs[i].v.value,
                        scope |-> pairs[i].v.scope]

\* C23 (as claimed): deserialize undoes serialize for every tree, up to the
\* class of the facts, and serialize is the flat mapping of the leaves.
C23_SerializeDeserializeIsomorphism ==
    /\ DoneTree => (fn_out.deser.ok /\ FactsEqByValue(fn_out.deser.t, fn_in.arg))
    /\ SerializedIsFlat

\* C23 (amended): deserialize undoes serialize, up to the class of the
\* facts, exactly for the trees without an empty nested group; for every
\* tree the result serializes to the same mapping, and serialize is the
\* flat mapping of the leaves.
C23_SerializeDeserializeWithoutEmptyGroups ==
    /\ DoneTree =>
          /\ fn_out.deser.ok
          /\ DictEq(serialize(fn_out.deser.t), fn_out.ser)
          /\ FactsEqByValue(fn_out.deser.t, fn_in.arg) <=> ~HasEmptyGroup(fn_in.arg)
    /\ SerializedIsFlat

\* a tree with a KnowledgeFact in a nested group went through serialize and
\* deserialize and came back equal up to the class
C23_Witness ==
    /\ DoneTree
    /\ \E i \in 1..Len(fn_in.arg) :
          /\ ~fn_in.arg[i].v.leaf
          /\ \E j \in 1..Len(fn_in.arg[i].v.sub) :
                /\ fn_in.arg[i].v.sub[j].v.leaf
                /\ fn_in.arg[i].v.sub[j].v.fact.type = "KnowledgeFact"
    /\ FactsEqByValue(fn_out.deser.t, fn_in.arg)
    /\ ~FactsEq(fn_out.deser.t, fn_in.arg)

(***************************************************************************)
(* EmissionSpec.build and Facts.__init__ (types.py) on their own.          *)
(***************************************************************************)
MaxValues == 2

\* Emission(scope, fact_type, required)
Emission(scope, fact_type, required) ==
    [spec |-> FALSE, scope |-> scope, fact_type |-> fact_type, required |-> required,
     emissions |-> <<>>]

\* EmissionSpec(required=required, **emissions); the outermost spec is the
\* dict emissions itself
EmissionSpec(required, emissions) ==
    [spec |-> TRUE, scope |-> "none", fact_type |-> "none", required |-> required,
     emissions |-> emissions]

\* a value that is not a dict, and a dict, as build receives them
Scalar(value) == [dict |-> FALSE, value |-> value, items |-> <<>>]

Mapping(items) == [dict |-> TRUE, value |-> "dict", items |-> items]

\* something that is neither a Fact nor a Facts
NotAFact == [leaf |-> TRUE, fact |-> NoFact, sub |-> <<>>]

\* a construction that stores every item as it is
Facts_init_unchecked(facts) == [raised |-> "none", why |-> "none", facts |-> facts]

\* Facts.__init__(**facts): [raised, why, facts]
RECURSIVE Facts_init_from(_, _)
Facts_init_from(facts, i) ==
    IF i > Len(facts) THEN [raised |-> "none", why |-> "none", facts |-> facts]
    ELSE IF ~facts[i].v.leaf THEN Facts_init_from(facts, i + 1)
    ELSE IF facts[i].v.fact.type = "none"
    THEN [raised |-> "TypeError", why |-> "not_fact", facts |-> <<>>]
    ELSE IF facts[i].v.fact.key # facts[i].k
    THEN [raised |-> "ValueError", why |-> "key_mismatch", facts |-> <<>>]
    ELSE Facts_init_from(facts, i + 1)

Facts_init(facts) == Facts_init_from(facts, 1)

\* the declared entries that are required and absent from values
MissingKeys(emissions, values) ==
    { key \in DictKeys(emissions) : DictGet(emissions, key).required /\ ~DictHas(values, key) }

RECURSIVE BuildLoop(_, _, _, _)
\* a build without the check for missing keys
build_without_missing_check(emissions, values) ==
    IF DictKeys(values) \ DictKeys(emissions) # {}
    THEN [raised |-> "ValueError", why |-> "undeclared", facts |-> <<>>]
    ELSE BuildLoop(emissions, values, 1, <<>>)

\* EmissionSpec.build(**values): [raised, why, facts]
build(emissions, values) ==
    IF DictKeys(values) \ DictKeys(emissions) # {}
    THEN [raised |-> "ValueError", why |-> "undeclared", facts |-> <<>>]
    ELSE IF MissingKeys(emissions, values) # {}
    THEN [raised |-> "ValueError", why |-> "missing", facts |-> <<>>]
    ELSE BuildLoop(emissions, values, 1, <<>>)

\* the loop of build over values.items(), then Facts(**facts_kwargs)
BuildLoop(emissions, values, i, facts_kwargs) ==
    IF i > Len(values) THEN Facts_init(facts_kwargs)
    ELSE LET key == values[i].k
             value == values[i].v
             entry == DictGet(emissions, key)
         IN IF entry.spec
            THEN IF ~value.dict
                 THEN [raised |-> "TypeError", why |-> "not_dict", facts |-> <<>>]
                 ELSE LET nested_facts == build(entry.emissions, value.items)
                      IN IF nested_facts.raised # "none" THEN nested_facts
                         ELSE BuildLoop(emissions, values, i + 1,
                                        DictSet(facts_kwargs, key, Group(nested_facts.facts)))
            ELSE BuildLoop(emissions, values, i + 1,
                           DictSet(facts_kwargs, key,
                                   Leaf(Fact(key, value, entry.scope, entry.fact_type))))

kC == <<"c">>
ValueKeys == {kA, kB, kC}

\* the declarations build is applied with: leaves of every scope, entries
\* that are not required, nested specs
EmissionSpecs ==
    { << [k |-> kA, v |-> Emission("session", "KnowledgeFact", TRUE)],
         [k |-> kB, v |-> Emission("iteration", "Fact", FALSE)] >>,
      << [k |-> kA, v |-> EmissionSpec(TRUE,
                             << [k |-> kB, v |-> Emission("persistent", "ProgressFact", TRUE)],
                                [k |-> kA, v |-> Emission("session", "Fact", FALSE)] >>)],
         [k |-> kB, v |-> Emission("session", "Fact", FALSE)] >>,
      << [k |-> kA, v |-> EmissionSpec(FALSE,
                             << [k |-> kA, v |-> Emission("iteration", "Fact", FALSE)] >>)],
         [k |-> kB, v |-> Emission("persistent", "Fact", TRUE)] >> }

\* dicts of values that are not dicts
ScalarDicts == DictsOver(ValueKeys, [key \in ValueKeys |-> { Scalar("v1") }], MaxValues)

\* the keyword arguments of build
ValueDicts ==
    DictsOver(ValueKeys,
              [key \in ValueKeys |-> { Scalar("v1") } \cup { Mapping(d) : d \in ScalarDicts }],
              MaxValues)

\* the keyword arguments of Facts(...)
FactsKwargs ==
    DictsOver(TreeKeys,
              [key \in TreeKeys |->
                  LeavesAt(key) \cup { Leaf(Fact(kC, "v1", "session", "Fact")), NotAFact,
                                       Group(<<>>) }],
              MaxValues)

InitEmission ==
    /\ Frozen
    /\ NoOps
    /\ fn_in \in { [kind |-> "build", emissions |-> e, values |-> v] :
                     e \in EmissionSpecs, v \in ValueDicts }
            \cup { [kind |-> "facts", emissions |-> <<>>, values |-> f] : f \in FactsKwargs }
    /\ fn_out = <<>>
    /\ fn_done = FALSE

\* spec.build(**values)
Build ==
    /\ ~fn_done
    /\ fn_in.kind = "build"
    /\ fn_out' = build(fn_in.emissions, fn_in.values)
    /\ fn_done' = TRUE
    /\ UNCHANGED fn_in
    /\ RestUnchanged

\* Facts(**values)
ConstructFacts ==
    /\ ~fn_done
    /\ fn_in.kind = "facts"
    /\ fn_out' = Facts_init(fn_in.values)
    /\ fn_done' = TRUE
    /\ UNCHANGED fn_in
    /\ RestUnchanged

NextEmission == Build \/ ConstructFacts

SpecEmission == InitEmission /\ [][NextEmission]_vars

(***************************************************************************)
(* Properties of EmissionSpec.build and Facts.__init__.                    *)
(***************************************************************************)
DoneBuild == fn_done /\ fn_in.kind = "build"

\* the rules of build: values has an undeclared key, lacks a required
\* entry, gives something that is not a dict for a nested spec, or breaks
\* these rules inside a nested spec
RECURSIVE BreaksDeclaration(_, _)
BreaksDeclaration(emissions, values) ==
    \/ DictKeys(values) \ DictKeys(emissions) # {}
    \/ MissingKeys(emissions, values) # {}
    \/ \E key \in DictKeys(values) \cap DictKeys(emissions) :
          /\ DictGet(emissions, key).spec
          /\ \/ ~DictGet(values, key).dict
             \/ BreaksDeclaration(DictGet(emissions, key).emissions, DictGet(values, key).items)

\* the keys of the result are the supplied keys, at every level
RECURSIVE KeysAsSupplied(_, _)
KeysAsSupplied(facts, values) ==
    /\ DictKeys(facts) = DictKeys(values)
    /\ \A key \in DictKeys(facts) :
          DictGet(facts, key).leaf
             \/ KeysAsSupplied(DictGet(facts, key).sub, DictGet(values, key).items)

\* C24: build fails, with no Facts, exactly when the values break the
\* declaration (undeclared key, missing required entry, no dict for a
\* nested spec, at any level); an undeclared key is reported before a
\* missing one; when build succeeds the keys of the result are the
\* supplied keys at every level.
C24_BuildValidates ==
    DoneBuild =>
        /\ fn_out.raised # "none" <=> BreaksDeclaration(fn_in.emissions, fn_in.values)
        /\ fn_out.raised # "none" => fn_out.facts = <<>>
        /\ DictKeys(fn_in.values) \ DictKeys(fn_in.emissions) # {} =>
              (fn_out.raised = "ValueError" /\ fn_out.why = "undeclared")
        /\ (/\ DictKeys(fn_in.values) \ DictKeys(fn_in.emissions) = {}
            /\ MissingKeys(fn_in.emissions, fn_in.values) # {}) =>
              (fn_out.raised = "ValueError" /\ fn_out.why = "missing")
        /\ fn_out.raised = "none" => KeysAsSupplied(fn_out.facts, fn_in.values)

\* build succeeded for a nested spec, with entries that are not required
\* left out at both levels
C24_Witness ==
    /\ DoneBuild
    /\ fn_out.raised = "none"
    /\ DictKeys(fn_in.values) = {kA}
    /\ DictKeys(fn_in.emissions) = {kA, kB}
    /\ ~DictGet(fn_out.facts, kA).leaf
    /\ DictKeys(DictGet(fn_out.facts, kA).sub) = {kB}

\* every leaf of a built tree carries its mapping key, the declared scope,
\* the declared class, and the supplied value
RECURSIVE AsDeclared(_, _, _)
AsDeclared(facts, emissions, values) ==
    \A key \in DictKeys(facts) :
        LET item == DictGet(facts, key)
            entry == DictGet(emissions, key)
        IN IF item.leaf
           THEN item.fact = Fact(key, DictGet(values, key), entry.scope, entry.fact_type)
           ELSE AsDeclared(item.sub, entry.emissions, DictGet(values, key).items)

\* C25: every leaf of the result of build, at any depth, has the key it is
\* stored under, the declared scope and the declared class; Facts(...)
\* with a leaf whose key differs from its mapping key fails.
C25_KeyAlignment ==
    /\ (DoneBuild /\ fn_out.raised = "none") =>
          AsDeclared(fn_out.facts, fn_in.emissions, fn_in.values)
    /\ (fn_done /\ fn_in.kind = "facts") =>
          /\ (\E i \in 1..Len(fn_in.values) :
                 /\ fn_in.values[i].v.leaf
                 /\ fn_in.values[i].v.fact.key # fn_in.values[i].k) => fn_out.raised # "none"
          /\ fn_out.raised = "none" => fn_out.facts = fn_in.values

\* Facts(...) failed on a leaf stored under a key that is not its own
C25_Witness ==
    /\ fn_done
    /\ fn_in.kind = "facts"
    /\ fn_out.raised = "ValueError"
    /\ fn_out.why = "key_mismatch"
    /\ Len(fn_in.values) = 2

(***************************************************************************)
(* Properties of PhaseRule.                                                *)
(***************************************************************************)
\* C26: a rule matches a key set iff every key of when_all is in it, and
\* when_any is empty or one of its keys is in it, and no key of when_none
\* is in it; a rule with three empty sets matches every key set.
C26_MatchesSemantics ==
    fn_done =>
        \A i \in 1..Len(fn_in.rules) :
            LET rule == fn_in.rules[i]
            IN /\ fn_out.matched[i] <=>
                     /\ \A key \in rule.when_all : key \in fn_in.keys
                     /\ rule.when_any = {} \/ \E key \in rule.when_any : key \in fn_in.keys
                     /\ \A key \in rule.when_none : key \notin fn_in.keys
               /\ (rule.when_all = {} /\ rule.when_any = {} /\ rule.when_none = {})
                     => fn_out.matched[i]

\* on the empty key set, a rule with three empty sets matched and a rule
\* with a when_any did not
C26_Witness ==
    /\ fn_done
    /\ fn_in.keys = {}
    /\ \E i, j \in 1..Len(fn_in.rules) :
          /\ fn_in.rules[i].when_all = {}
          /\ fn_in.rules[i].when_any = {}
          /\ fn_in.rules[i].when_none = {}
          /\ fn_out.matched[i]
          /\ fn_in.rules[j].when_any # {}
          /\ ~fn_out.matched[j]

(***************************************************************************)
(* Properties of the durable facts across iterations.                      *)
(***************************************************************************)
\* C27: the durable keys that store.load returned at the start of an
\* iteration are still returned after the iteration (the key set never
\* shrinks), with the same fact unless the iteration emitted a durable
\* fact for the same key.
C27_DurableFactsAccumulate ==
    (pc = "gates" /\ persistent_facts(iteration_state).ok) =>
        \A key \in DurableKeys(persistent) :
            /\ key \in StoreKeys
            /\ key \notin DictKeys(DurableEmitted) =>
                  DictGet(serialize(StoreLoad.t), key) = DictGet(serialize(persistent), key)

(***************************************************************************)
(* IterationState (state.py) on its own: constructed from a tree of        *)
(* BaseTrees, then begin_iteration and apply_facts in any order, at most   *)
(* MaxApplies of them, and a read of a key at any point.                   *)
(***************************************************************************)
MaxApplies == 2

BaseTrees == { t \in FactsTrees : Entries(t) <= MaxEntries - 1 }

\* the Facts apply_facts is called with
AppliedFacts ==
    { One(kA, "v1", "iteration", "Fact"),
      One(kA, "v2", "session", "KnowledgeFact"),
      Nested(kA, kB, "v3", "persistent", "Fact"),
      One(kB, "v3", "iteration", "Fact") \o One(kA, "v3", "persistent", "Fact") }

ReadKeys == {kA, kB, kAB, kC}

NoRead == [key |-> <<>>, get |-> "none", item |-> [ok |-> FALSE, value |-> "none"],
           contains |-> FALSE]

InitState ==
    /\ Frozen
    /\ NoOps
    /\ fn_in \in BaseTrees
    /\ fn_out = <<>>
    /\ fn_done = FALSE

\* IterationState(base_facts)
StateConstruct ==
    /\ ~fn_done
    /\ fn_out' = [st |-> IterationState(fn_in), prev |-> NoState, op |-> "init",
                  applied |-> <<>>, n |-> 0, read |-> NoRead]
    /\ fn_done' = TRUE
    /\ UNCHANGED fn_in
    /\ RestUnchanged

\* state.begin_iteration()
StateBegin ==
    /\ fn_done
    /\ fn_out.op # "read"
    /\ fn_out.n < MaxApplies
    /\ fn_out' = [st |-> begin_iteration(fn_out.st), prev |-> fn_out.st, op |-> "begin",
                  applied |-> <<>>, n |-> fn_out.n + 1, read |-> NoRead]
    /\ UNCHANGED << fn_in, fn_done >>
    /\ RestUnchanged

\* state.apply_facts(facts)
StateApply(facts) ==
    /\ fn_done
    /\ fn_out.op # "read"
    /\ fn_out.n < MaxApplies
    /\ fn_out' = [st |-> apply_facts(fn_out.st, facts), prev |-> fn_out.st, op |-> "apply",
                  applied |-> facts, n |-> fn_out.n + 1, read |-> NoRead]
    /\ UNCHANGED << fn_in, fn_done >>
    /\ RestUnchanged

\* state.get(key, "default"), state[key], key in state: none of them
\* assigns to a map
StateRead(key) ==
    /\ fn_done
    /\ fn_out.op # "read"
    /\ fn_out' = [fn_out EXCEPT !.prev = fn_out.st,
                                !.op = "read",
                                !.applied = <<>>,
                                !.read = [key |-> key,
                                          get |-> state_get(fn_out.st, key, "default"),
                                          item |-> state_getitem(fn_out.st, key),
                                          contains |-> state_contains(fn_out.st, key)]]
    /\ UNCHANGED << fn_in, fn_done >>
    /\ RestUnchanged

NextState ==
    \/ StateConstruct
    \/ StateBegin
    \/ \E facts \in AppliedFacts : StateApply(facts)
    \/ \E key \in ReadKeys : StateRead(key)

SpecState == InitState /\ [][NextState]_vars

(***************************************************************************)
(* Properties of IterationState.                                           *)
(***************************************************************************)
StateDid(op) == fn_done /\ fn_out.op = op

\* C28: after apply_facts(F), get and indexing give, for every leaf key of
\* F, the value F carries for it, whatever was applied for the key before.
C28_AppliedValueIsRead ==
    StateDid("apply") =>
        LET pairs == iter_facts(fn_out.applied, <<>>)
        IN \A i \in 1..Len(pairs) :
              /\ state_get(fn_out.st, pairs[i].k, "default") = pairs[i].v.value
              /\ state_getitem(fn_out.st, pairs[i].k) = [ok |-> TRUE, value |-> pairs[i].v.value]

\* C29: a read looks at the ephemeral map first and then at the durable
\* map; for a key in neither, get gives the default, membership is false
\* and indexing raises; a read gives a value, not a Fact, and changes
\* neither map.
C29_ReadsPreferEphemeral ==
    StateDid("read") =>
        LET key == fn_out.read.key
            st == fn_out.st
        IN /\ st = fn_out.prev
           /\ DictHas(st.iteration, key) =>
                 /\ fn_out.read.get = DictGet(st.iteration, key).value
                 /\ fn_out.read.item = [ok |-> TRUE, value |-> DictGet(st.iteration, key).value]
                 /\ fn_out.read.contains
           /\ (~DictHas(st.iteration, key) /\ DictHas(st.persistent, key)) =>
                 /\ fn_out.read.get = DictGet(st.persistent, key).value
                 /\ fn_out.read.item = [ok |-> TRUE, value |-> DictGet(st.persistent, key).value]
                 /\ fn_out.read.contains
           /\ (~DictHas(st.iteration, key) /\ ~DictHas(st.persistent, key)) =>
                 /\ fn_out.read.get = "default"
                 /\ ~fn_out.read.item.ok
                 /\ ~fn_out.read.contains

\* a key with different values in the two maps was read
C29_Witness ==
    /\ StateDid("read")
    /\ DictHas(fn_out.st.iteration, fn_out.read.key)
    /\ DictHas(fn_out.st.persistent, fn_out.read.key)
    /\ DictGet(fn_out.st.persistent, fn_out.read.key).value # fn_out.read.get

\* C30: a new IterationState has an empty ephemeral map and a durable map
\* with exactly the leaves of the loaded Facts whose scope is not
\* iteration, under their fully qualified keys; begin_iteration empties
\* the ephemeral map, keeps the durable map, and has no further effect
\* when repeated.
C30_FreshStateAndBeginIteration ==
    /\ StateDid("init") =>
          LET pairs == iter_facts(fn_in, <<>>)
          IN /\ fn_out.st.iteration = <<>>
             /\ DictKeys(fn_out.st.persistent)
                   = { pairs[i].k : i \in { j \in 1..Len(pairs) : pairs[j].v.scope # "iteration" } }
             /\ \A i \in 1..Len(pairs) :
                   pairs[i].v.scope # "iteration" =>
                       DictGet(fn_out.st.persistent, pairs[i].k) = pairs[i].v
    /\ StateDid("begin") =>
          /\ fn_out.st.iteration = <<>>
          /\ fn_out.st.persistent = fn_out.prev.persistent
          /\ begin_iteration(fn_out.st) = fn_out.st

\* begin_iteration emptied an ephemeral map that had a fact, in a state
\* constructed from a tree with a durable and an iteration-scoped leaf
C30_Witness ==
    /\ StateDid("begin")
    /\ fn_out.prev.iteration # <<>>
    /\ fn_out.st.persistent # <<>>
    /\ \E i \in 1..Len(fn_in) : fn_in[i].v.leaf /\ fn_in[i].v.fact.scope = "iteration"

(***************************************************************************)
(* The iteration that raises the cycle error.                              *)
(***************************************************************************)
\* run() raised the cycle error
CycleRaised == pc = "raised" /\ outcome = "cycle"

\* history(agent_id) holds a record of iteration i with the phase
RecordedIteration(i, phase) ==
    \E r \in 1..Len(StoreHistory) :
        /\ StoreHistory[r].iteration = i
        /\ StoreHistory[r].phase.name = phase

\* the record of the iteration before the one in progress, as
\* history(agent_id) gives it
PreviousIterationRecord ==
    ExpectedRecord([iteration |-> iteration - 1,
                    phase |-> [kind |-> "enum", name |-> last_phase],
                    by_action |-> ByAction(<<>>, results)])

\* the store is as the iteration before the raising one left it: that
\* iteration's durable facts and record if it saved, what it had loaded and
\* no record of it otherwise
StoreAsPreviousIterationLeftIt ==
    /\ Saved =>
           /\ DictEq(serialize(StoreLoad.t), serialize(persistent_facts(iteration_state).t))
           /\ StoreHistory # <<>>
           /\ StoreHistory[Len(StoreHistory)] = PreviousIterationRecord
    /\ ~Saved =>
           /\ StoreLoad.t = persistent
           /\ SingleController =>
                  \A r \in 1..Len(StoreHistory) : StoreHistory[r].iteration < iteration - 1

\* the raising iteration is the first one whose phase closes max_same_phase
\* equal entries: max_same_phase - 1 iterations of that phase were executed
\* just before it, and the entry before those, if any, is another phase
RepeatedPhaseExecuted ==
    LET len == Len(phase_history)
    IN /\ len >= max_same_phase
       /\ iteration >= len
       /\ \A i \in (len - max_same_phase + 1)..len : phase_history[i] = last_phase
       /\ len > max_same_phase =>
              \E i \in (len - max_same_phase)..(len - 1) : phase_history[i] # last_phase

\* the step that raises the cycle error increments the counter, appends the
\* phase and touches nothing else: no load, no action, no save
CycleStepFrame ==
    [][ (outcome' = "cycle" /\ pc = "loop") =>
            /\ iteration' = iteration + 1
            /\ phase_history' = Append(phase_history, last_phase)
            /\ mem_store' = mem_store
            /\ fs_store' = fs_store
            /\ UNCHANGED << last_phase, persistent, iteration_state, action_index, results,
                            pending, emitted, durable_keys >>
      ]_vars

\* C31 as stated: the iteration that raises the cycle error leaves the store
\* as it was, and each of the max_same_phase - 1 iterations of the repeated
\* phase before it left a record in the history.
C31_CycleCheckFirst ==
    /\ [](CycleRaised =>
            /\ StoreAsPreviousIterationLeftIt
            /\ RepeatedPhaseExecuted
            /\ \A i \in (iteration - max_same_phase + 1)..(iteration - 1) :
                   RecordedIteration(i, last_phase))
    /\ CycleStepFrame

\* C31: the iteration that raises the cycle error has incremented the
\* counter and appended the phase and nothing else, so the store is as the
\* iteration before left it; max_same_phase - 1 iterations of the repeated
\* phase were executed just before it, and the last of them is recorded
\* exactly when one of its actions returned a Facts.
C31_CycleCheckFirstRecordsSavingIterations ==
    /\ [](CycleRaised =>
            /\ StoreAsPreviousIterationLeftIt
            /\ RepeatedPhaseExecuted
            /\ Saved => RecordedIteration(iteration - 1, last_phase))
    /\ CycleStepFrame

\* the cycle error was raised after an iteration that saved a key that was
\* not in the store at its start
C31_Witness ==
    /\ CycleRaised
    /\ Saved
    /\ StoreKeys \ DictKeys(serialize(persistent)) # {}

(***************************************************************************)
(* The order of the checks of AgentSpec construction.                      *)
(***************************************************************************)
\* the methods of _validate in the order the specification gives
ValidationOrder ==
    << "name_and_version", "phases", "procedures", "transition_policy", "control_policy",
       "fact_scopes" >>

\* the method, called on its own, raises
Violates(self, category) ==
    CASE category = "name_and_version" -> _validate_name_and_version(self) # "none"
      [] category = "phases" -> _validate_phases(self) # "none"
      [] category = "procedures" -> _validate_procedures(self).raised # "none"
      [] category = "transition_policy" -> _validate_transition_policy(self) # "none"
      [] category = "control_policy" -> _validate_control_policy(self) # "none"
      [] category = "fact_scopes" ->
             self.validate_emissions /\ _validate_fact_scopes(self).raised # "none"

\* what the method, called on its own, raises
RaisedBy(self, category) ==
    CASE category = "name_and_version" -> _validate_name_and_version(self)
      [] category = "phases" -> _validate_phases(self)
      [] category = "procedures" -> _validate_procedures(self).raised
      [] category = "transition_policy" -> _validate_transition_policy(self)
      [] category = "control_policy" -> _validate_control_policy(self)
      [] category = "fact_scopes" -> _validate_fact_scopes(self).raised

\* the positions of the order whose method raises
ViolatedPositions(self) ==
    { i \in 1..Len(ValidationOrder) : Violates(self, ValidationOrder[i]) }

\* the smallest member of a non-empty set of numbers
Min(S) == CHOOSE x \in S : \A y \in S : x <= y

\* C32: construction fails iff some check fails, with the error of the first
\* failing check in the order name/version, phases, procedures, transition
\* policy (default, rule targets, overlap), control policy, fact scopes; the
\* checks after it are not evaluated (their warnings are not issued).
C32_ValidationOrder ==
    fn_done =>
        LET violated == ViolatedPositions(fn_in)
            rules == fn_in.transition_policy.rules
        IN /\ (fn_out.raised = "none") <=> (violated = {})
           /\ (fn_out.failed = "none") <=> (violated = {})
           /\ violated # {} =>
                  /\ fn_out.failed = ValidationOrder[Min(violated)]
                  /\ fn_out.raised = RaisedBy(fn_in, ValidationOrder[Min(violated)])
                  /\ Min(violated) <= 3 => fn_out.warnings = {}
                  /\ Min(violated) \in {4, 5} =>
                         fn_out.warnings = _validate_procedures(fn_in).warnings
           /\ fn_out.failed = "transition_policy" =>
                  /\ fn_out.message = "default" <=>
                         fn_in.transition_policy.default \notin fn_in.phases
                  /\ fn_out.message = "rule_target" <=>
                         /\ fn_in.transition_policy.default \in fn_in.phases
                         /\ \E i \in 1..Len(rules) : rules[i].enter \notin fn_in.phases
                  /\ fn_out.message = "overlap" <=>
                         /\ fn_in.transition_policy.default \in fn_in.phases
                         /\ \A i \in 1..Len(rules) : rules[i].enter \in fn_in.phases

\* a spec that violates the phases check, the transition policy check and
\* the control policy check was rejected
C32_Witness ==
    /\ fn_done
    /\ {2, 4, 5} \subseteq ViolatedPositions(fn_in)
    /\ fn_out.failed = "phases"

(***************************************************************************)
(* The declared-overlap check.                                             *)
(***************************************************************************)
\* the rule has neither a when_any nor a when_none
Unguarded(rule) == rule.when_any = {} /\ rule.when_none = {}

\* two rules at different positions with equal when_all, both unguarded
DeclaredOverlap(rules) ==
    \E i, j \in 1..Len(rules) :
        /\ i # j
        /\ rules[i].when_all = rules[j].when_all
        /\ Unguarded(rules[i])
        /\ Unguarded(rules[j])

\* everything _validate checks before _check_rule_determinism passes
ReachesOverlapCheck(self) ==
    /\ \A i \in 1..3 : ~Violates(self, ValidationOrder[i])
    /\ _validate_transition_policy_message(self) \in {"overlap", "none"}

\* C33: the overlap check rejects iff two rules have equal when_all and both
\* have empty when_any and when_none; a policy in which every two rules
\* differ in when_all or one of the two has a when_any or a when_none passes,
\* and construction fails with the overlap error exactly when the check is
\* reached and rejects.
C33_DeclaredOverlapCheck ==
    fn_done =>
        LET rules == fn_in.transition_policy.rules
        IN /\ (fn_out.determinism = "ValueError") <=> DeclaredOverlap(rules)
           /\ (\A i, j \in 1..Len(rules) :
                   i # j => \/ rules[i].when_all # rules[j].when_all
                            \/ ~Unguarded(rules[i])
                            \/ ~Unguarded(rules[j]))
                 => fn_out.determinism = "none"
           /\ (fn_out.failed = "transition_policy" /\ fn_out.message = "overlap")
                 <=> (ReachesOverlapCheck(fn_in) /\ DeclaredOverlap(rules))

\* a spec was constructed whose two rules have the same when_all, one of
\* them with a when_any, and enter different phases
C33_Witness ==
    /\ Constructed
    /\ Len(fn_in.transition_policy.rules) = 2
    /\ fn_in.transition_policy.rules[1].when_all = fn_in.transition_policy.rules[2].when_all
    /\ fn_in.transition_policy.rules[1].enter # fn_in.transition_policy.rules[2].enter
    /\ Unguarded(fn_in.transition_policy.rules[1])
    /\ fn_in.transition_policy.rules[2].when_any # {}

(***************************************************************************)
(* The order of the two writes of a save.                                  *)
(***************************************************************************)
\* the history holds the record of the save that was started last
RecordAppended ==
    /\ op_log # <<>>
    /\ op_log[Len(op_log)] = "save"
    /\ StoreHistory = Append(op_before.history, ExpectedRecord(pending.iteration_facts))

\* the snapshot holds the durable facts of the save that was started last
SnapshotUpdated ==
    /\ StoreLoad.ok
    /\ DictEq(serialize(StoreLoad.t), serialize(pending.persistent_facts))

\* C34: at every point of a save, of either store, the record of the
\* iteration is in the history only if its durable facts are in the
\* snapshot.
C34_SnapshotBeforeHistory == RecordAppended => SnapshotUpdated

(***************************************************************************)
(* The non-deterministic transition inside run().                          *)
(***************************************************************************)
\* run() raised the error of derive_phase
NondeterminismRaised == pc = "raised" /\ outcome = "nondeterministic"

\* no gate fires on the durable keys of the iteration state and two or more
\* rules match them
TwoRulesMatchAtGates ==
    /\ pc = "gates"
    /\ persistent_facts(iteration_state).ok
    /\ LET keys == DurableKeys(persistent_facts(iteration_state).t)
       IN /\ Decide(spec, keys).kind \notin
                 {"completion", "failure", "pause_user", "pause_state"}
          /\ NumMatching(spec.transition_policy.rules, keys) >= 2

\* the step from the gates on two matching rules ends run() with the error
\* and leaves the phase and the store as they are
OverlapStepIsFatal ==
    [][ TwoRulesMatchAtGates =>
            /\ pc' = "raised"
            /\ outcome' = "nondeterministic"
            /\ last_phase' = last_phase
            /\ iteration' = iteration
            /\ mem_store' = mem_store
            /\ fs_store' = fs_store
      ]_vars

\* the error is raised at the end of an iteration, after its save, on a key
\* set that two rules match and no gate stops
RaisedAtIterationBoundary ==
    /\ phase_history # <<>>
    /\ phase_history[Len(phase_history)] = last_phase
    /\ action_index > Len(spec.procedures[last_phase])
    /\ pending = NoPending
    /\ durable_keys = StoreKeys
    /\ NoGateFires
    /\ NumMatching(spec.transition_policy.rules, StoreKeys) >= 2
    /\ DictEq(serialize(StoreLoad.t), serialize(persistent_facts(iteration_state).t))

\* C35 as stated: two rules matching the durable keys end run() with an
\* error, the phase unchanged, the durable facts and the history record of
\* the iteration already saved.
C35_NondeterminismFatalAfterSave ==
    /\ [](NondeterminismRaised =>
            /\ RaisedAtIterationBoundary
            /\ StoreHistory # <<>>
            /\ StoreHistory[Len(StoreHistory)] = ThisIterationRecord)
    /\ OverlapStepIsFatal

\* C35: two rules matching the durable keys, when no gate fires, end run()
\* with an error at the end of the iteration; the phase is unchanged, the
\* store holds the durable facts of the iteration, and the history holds the
\* record of the iteration exactly when one of its actions returned a Facts.
C35_NondeterminismFatalAfterSaveIfAny ==
    /\ [](NondeterminismRaised =>
            /\ RaisedAtIterationBoundary
            /\ Saved => (StoreHistory # <<>>
                         /\ StoreHistory[Len(StoreHistory)] = ThisIterationRecord)
            /\ (~Saved /\ SingleController) =>
                   \A r \in 1..Len(StoreHistory) : StoreHistory[r].iteration < iteration)
    /\ OverlapStepIsFatal

\* the error was raised after an iteration that saved a key that was not in
\* the store at its start
C35_Witness ==
    /\ NondeterminismRaised
    /\ Saved
    /\ StoreKeys \ DictKeys(serialize(persistent)) # {}

(***************************************************************************)
(* The current phase of a controller built from a validated spec.          *)
(***************************************************************************)
\* the arguments the agent's AgentSpec is constructed with: its phases as
\* members of one Enum class, validate_emissions=False
ConstructorArgs(agent) ==
    LET member(p) == PhaseMember("Phase", p)
        rules == agent.transition_policy.rules
    IN [name |-> <<"a">>,
        version |-> <<"1">>,
        phases |-> { member(p) : p \in agent.phases },
        control_policy |-> agent.control_policy,
        transition_policy |->
            TransitionPolicy([i \in 1..Len(rules) |->
                                 PhaseRule(member(rules[i].enter), rules[i].when_all,
                                           rules[i].when_any, rules[i].when_none)],
                             member(agent.transition_policy.default)),
        procedures |-> [ph \in { member(p) : p \in DOMAIN agent.procedures } |->
                           ProcedureTemplate("t", agent.procedures[ph.name])],
        validate_emissions |-> FALSE]

\* AgentSpec(...) does not raise on the agent
SuccessfullyValidated(agent) == _validate(ConstructorArgs(agent)).raised = "none"

\* last_phase changes only to the default, when a controller is
\* constructed, or to the enter phase of a rule that matches the durable
\* keys
PhaseOnlyFromPolicy ==
    [][ last_phase' # last_phase =>
            \/ pc' = "idle" /\ last_phase' = spec.transition_policy.default
            \/ \E i \in 1..Len(spec.transition_policy.rules) :
                   /\ spec.transition_policy.rules[i].enter = last_phase'
                   /\ matches(spec.transition_policy.rules[i], durable_keys')
      ]_vars

\* C36: the current phase of a controller built from a validated spec is a
\* phase of the spec with a procedure, in every state; it is the default at
\* construction and afterwards only the enter phase of a matching rule, and
\* the missing-procedure error is never raised.
C36_PhaseAlwaysDeclared ==
    /\ [](SuccessfullyValidated(spec) =>
            /\ pc # "none" => /\ last_phase \in spec.phases
                              /\ last_phase \in DOMAIN spec.procedures
            /\ \A i \in 1..Len(phase_history) : phase_history[i] \in spec.phases
            /\ outcome # "missing_procedure")
    /\ PhaseOnlyFromPolicy

\* the procedure of a phase that is not the default is being executed,
\* after a transition in an earlier run() call
C36_Witness ==
    /\ SuccessfullyValidated(spec)
    /\ pc = "exec"
    /\ last_phase # spec.transition_policy.default
    /\ calls.run = 2

\* C37: persistent_facts() does not fail and its flattening is the durable
\* map, after construction and after every apply_facts; on a state
\* constructed from durable facts it has the leaves of those facts.
C37_PersistentFactsLoseNothing ==
    fn_done =>
        LET facts == persistent_facts(fn_out.st)
        IN /\ facts.ok
           /\ DictEq(flatten(facts.t), fn_out.st.persistent)
           /\ (fn_out.op = "init" /\ SelectDurable(iter_facts(fn_in, <<>>)) = iter_facts(fn_in, <<>>))
                 => DictEq(flatten(facts.t), flatten(fn_in))

(***************************************************************************)
(* The control gates come at the end of an iteration.                      *)
(***************************************************************************)
\* run() ended at a control gate
ControlGateOutcomes == {"completion", "failure", "pause_user", "pause_state"}

\* every action of the procedure of the current phase was performed, in
\* order, and none raised
ProcedureExecuted ==
    /\ phase_history # <<>>
    /\ action_index = Len(spec.procedures[last_phase]) + 1
    /\ Len(results) = Len(spec.procedures[last_phase])
    /\ \A i \in 1..Len(results) :
           /\ results[i].action = spec.procedures[last_phase][i].name
           /\ ~results[i].result.raised

\* the save of the iteration is over: the snapshot and the record are in
\* the store
IterationSaved ==
    /\ pending = NoPending
    /\ persistent_facts(iteration_state).ok
    /\ DictEq(serialize(StoreLoad.t), serialize(persistent_facts(iteration_state).t))
    /\ StoreHistory # <<>>
    /\ StoreHistory[Len(StoreHistory)] = ThisIterationRecord

\* nothing was saved in the iteration: the store is as it was loaded
NothingSaved ==
    /\ pending = NoPending
    /\ StoreLoad.t = persistent
    /\ SingleController =>
           \A r \in 1..Len(StoreHistory) : StoreHistory[r].iteration < iteration

\* run() ends at a control gate only from the end of an iteration, and the
\* first step of a run() call never does
GatesOnlyAfterIteration ==
    [][ /\ (outcome' \in ControlGateOutcomes /\ outcome \notin ControlGateOutcomes)
            => (pc = "gates" /\ iteration' = iteration)
        /\ pc = "loop" => outcome' \notin ControlGateOutcomes
      ]_vars

\* C38 as stated: the gates are checked only after the whole procedure of
\* the current phase was executed and the iteration was saved, in every
\* run() call.
C38_GatesAfterProcedureAndSave ==
    /\ []((pc = "gates" \/ outcome \in ControlGateOutcomes) =>
            /\ ProcedureExecuted
            /\ IterationSaved)
    /\ GatesOnlyAfterIteration

\* C38: the gates are checked only at the end of an iteration, after every
\* action of the procedure of the current phase was performed and after the
\* save, which takes place exactly when an action returned a Facts; no
\* run() call checks them before its first iteration.
C38_GatesAfterProcedureAndSaveIfAny ==
    /\ []((pc = "gates" \/ outcome \in ControlGateOutcomes) =>
            /\ ProcedureExecuted
            /\ Saved => IterationSaved
            /\ ~Saved => NothingSaved)
    /\ GatesOnlyAfterIteration

\* a second run() call, entered with the completion key in the store,
\* executed the procedure and saved before it returned on completion
C38_Witness ==
    /\ outcome = "completion"
    /\ calls.run = 2
    /\ spec.control_policy.completion_keys \cap DictKeys(serialize(persistent)) # {}
    /\ results # <<>>
    /\ Saved

(***************************************************************************)
(* Several run() calls on one controller.                                  *)
(***************************************************************************)
\* the step is a call of run()
RunCalled == calls'.run = calls.run + 1

\* a call of run() keeps the counter and the phase and starts with an empty
\* phase history
RunCarriesOver ==
    [][ RunCalled =>
            /\ iteration' = iteration
            /\ last_phase' = last_phase
            /\ phase_history' = <<>>
      ]_vars

\* the counter changes only by one, at the head of an iteration that the
\* loop condition lets in, or to 0 when a controller is constructed
CounterNeverReset ==
    [][ iteration' # iteration =>
            \/ /\ pc = "loop"
               /\ iteration < max_iterations
               /\ iteration' = iteration + 1
               /\ phase_history' = Append(phase_history, last_phase)
            \/ /\ calls'.init = calls.init + 1
               /\ iteration' = 0
      ]_vars

\* a run() call entered with the counter at max_iterations or above raises
\* at once and touches nothing
EnteredAtLimitRaises ==
    [][ (pc = "loop" /\ phase_history = <<>> /\ iteration >= max_iterations) =>
            /\ pc' = "raised"
            /\ outcome' = "max_iterations"
            /\ iteration' = iteration
            /\ last_phase' = last_phase
            /\ phase_history' = <<>>
            /\ mem_store' = mem_store
            /\ fs_store' = fs_store
            /\ results' = results
      ]_vars

\* C39: a run() call keeps the iteration counter and the current phase of
\* the controller and starts with an empty phase history; the counter only
\* grows, by one per iteration, so no iteration of any call runs with the
\* counter above max_iterations, and a call entered with the counter at
\* max_iterations raises without executing an iteration.
C39_CounterAndPhaseCarryOver ==
    /\ [](/\ pc \in {"exec", "save_1", "save_2", "save_3", "gates"} =>
                 iteration <= max_iterations
          /\ Len(phase_history) <= iteration
          /\ (pc \notin {"none", "idle"} /\ calls.run = 1 /\ calls.init = 1) =>
                 Len(phase_history) = iteration)
    /\ RunCarriesOver
    /\ CounterNeverReset
    /\ EnteredAtLimitRaises

\* a second run() call on the controller, entered with the counter at
\* max_iterations and a phase that is not the default, raised at once
C39_Witness ==
    /\ calls = [init |-> 1, run |-> 2]
    /\ pc = "raised"
    /\ outcome = "max_iterations"
    /\ phase_history = <<>>
    /\ iteration = max_iterations
    /\ last_phase # spec.transition_policy.default

(***************************************************************************)
(* Termination of run().  The statements of run() follow one another and   *)
(* every instruction of an action returns or raises: while run() is being  *)
(* executed, its next step is taken.  Every step of run() (BeginIteration, *)
(* Perform, Finalize, Save, Gates) moves pc or action_index, and no other  *)
(* action is enabled while run() is being executed.                        *)
(***************************************************************************)
\* run() is being executed
Running == pc \in {"loop", "exec", "finalize", "save_1", "save_2", "save_3", "gates"}

\* run() takes its next step
RunAdvances ==
    /\ Running
    /\ pc' \in {"loop", "exec", "save_1", "save_2", "save_3", "gates", "returned", "raised"}
    /\ action_index' \in {action_index, action_index + 1, 1}
    /\ << pc', action_index' >> # << pc, action_index >>

SpecTerminating == Spec /\ WF_<< pc, action_index >>(RunAdvances)

\* while run() is being executed one of its steps can be taken: the guard
\* of BeginIteration, Perform, Finalize, Save or Gates holds
StepAvailable ==
    Running =>
        /\ pc # "finalize"
        /\ pc = "exec" =>
               /\ last_phase \in DOMAIN spec.procedures
               /\ action_index \in 1..(Len(spec.procedures[last_phase]) + 1)
               /\ action_index <= Len(spec.procedures[last_phase]) =>
                      instruction(spec.procedures[last_phase][action_index],
                                  iteration_state) # {}

\* run() returned or raised
Ended == pc \in {"returned", "raised"}

\* the ways run() ends that the specification lists
ListedOutcomes ==
    {"completion", "failure", "pause_user", "pause_state", "no_transition",
     "cycle", "max_iterations", "nondeterministic"}

\* the iterations of the run() call, the one in progress included, are at
\* most max_iterations
AtMostMaxIterations == (Running \/ Ended) => Len(phase_history) <= max_iterations

\* C40 as stated: run() ends after at most max_iterations iterations, by
\* returning on completion, failure, a pause or no matching rule, or by
\* raising the cycle, max-iterations or non-determinism error.
C40_RunTerminatesAsListed ==
    /\ Running ~> Ended
    /\ []StepAvailable
    /\ []AtMostMaxIterations
    /\ [](Ended => outcome \in ListedOutcomes)

\* C40: run() ends after at most max_iterations iterations: it returns on
\* completion, failure, a pause or no matching rule, or raises the cycle,
\* max-iterations or non-determinism error, the exception of an action, or
\* the TypeError of unflatten.
C40_RunTerminates ==
    /\ Running ~> Ended
    /\ []StepAvailable
    /\ []AtMostMaxIterations
    /\ [](Ended => /\ outcome \in ListedOutcomes \cup {"action_error", "type_error"}
                   /\ (pc = "returned") <=>
                          outcome \in {"completion", "failure", "pause_user", "pause_state",
                                       "no_transition"})

\* run() raised the max-iterations error after max_iterations iterations of
\* this call, all of which ended with a transition
C40_Witness ==
    /\ pc = "raised"
    /\ outcome = "max_iterations"
    /\ Len(phase_history) = max_iterations
    /\ max_iterations = MaxIterationsArg
====
